---- MODULE Spec2Model ----
(***************************************************************************)
(* A model of the SIF container (sylabs/sif): the header, the descriptor   *)
(* table, the data area, the descriptor lookups of pkg/sif and the         *)
(* mutations CreateContainer, AddObject, DeleteObject, SetPrimPart and     *)
(* SetMetadata.                                                            *)
(*                                                                         *)
(* The lookups (GetFromDescrID, GetPartPrimSys, GetFromLinkedDescr,        *)
(* GetPartType, GetSIFArch, GetData) are translated from the source.  The  *)
(* mutations are not part of the available source (only their tests are);  *)
(* they are modelled from sections 3, 4.2, 4.3 and 4.4 of the              *)
(* specification, step by step, on top of the source's lookups.            *)
(***************************************************************************)
EXTENDS Integers, Sequences, FiniteSets, TLC

(***************************************************************************)
(* Bounds of the model.                                                    *)
(***************************************************************************)
MaxDescr == 3      \* capacity of the descriptor table
MaxSteps == 4      \* number of mutation calls issued on one container
MaxTime == 2       \* largest clock value / pinned time
MaxTimeSteps == 2  \* number of calls issued under the time options
MaxLookupID == 2   \* largest id in a table given to the lookups
MaxSigners == 2    \* signers of an encoder, verifiers of a decoder
MaxTasks == 2      \* verify tasks of a Verifier
MaxReaders == 2    \* object readers obtained from one handle
MaxReadObjects == 2 \* objects of a container that is read
MaxRead == 2       \* length of the buffer given to one Read
MaxImageObjects == 3 \* objects of a container read as an OCI image

(***************************************************************************)
(* Layout and identity values taken from the specification.                *)
(***************************************************************************)
LaunchLen == 32
HeaderLen == 256
DescrLen == 1
CallerUID == 1000
CallerGID == 1000

HdrArchUnknown == "HdrArchUnknown"

\* A link is 0, an object id, or a group id with the group-link bit set.
NoLink == [group |-> FALSE, ref |-> 0]
ObjLink(id) == [group |-> FALSE, ref |-> id]
GroupLink(g) == [group |-> TRUE, ref |-> g]

\* A descriptor slot whose bytes are all zero.
ZeroDescr ==
  [Used |-> FALSE, Datatype |-> "None", ID |-> 0, Groupid |-> 0,
   Link |-> NoLink, Fileoff |-> 0, Filelen |-> 0, Storelen |-> 0,
   Ctime |-> 0, Mtime |-> 0, UID |-> 0, GID |-> 0,
   Fstype |-> "None", Parttype |-> "None", Arch |-> "None", Meta |-> 0,
   Name |-> ""]

\* Header: the header fields.  DescrArr: the descriptor table.  Data: the
\* bytes of the data area.  now: the clock.  steps: the calls issued.
\* last: the last call (operation, error, object id, options).
\* issued: the ids assigned by the successful AddObject calls, in order.
\* added: the inputs of the successful AddObject calls, in order.
\* loaded: the handle has not been unloaded.
\* integ: the state of the integrity package's encoder, envelope in flight
\* and decoder.
\* readers: the object readers obtained from the handle, each with its
\* section of the file, its position and the bytes it has delivered.
VARIABLES Header, DescrArr, Data, now, steps, last, issued, loaded, added,
          integ, readers

vars ==
  <<Header, DescrArr, Data, now, steps, last, issued, loaded, added, integ,
    readers>>

\* The container as one value: header, descriptor table, data area bytes.
Image == [h |-> Header, d |-> DescrArr, data |-> Data]

(***************************************************************************)
(* Lookups (source: pkg/sif lookup code).                                  *)
(***************************************************************************)

\* GetSIFArch returns the SIF arch code from the go runtime arch code.
GetSIFArch(goarch) ==
  CASE goarch = "386" -> "HdrArch386"
    [] goarch = "amd64" -> "HdrArchAMD64"
    [] goarch = "arm" -> "HdrArchARM"
    [] goarch = "arm64" -> "HdrArchARM64"
    [] goarch = "ppc64" -> "HdrArchPPC64"
    [] goarch = "ppc64le" -> "HdrArchPPC64le"
    [] goarch = "mips" -> "HdrArchMIPS"
    [] goarch = "mipsle" -> "HdrArchMIPSle"
    [] goarch = "mips64" -> "HdrArchMIPS64"
    [] goarch = "mips64le" -> "HdrArchMIPS64le"
    [] goarch = "s390x" -> "HdrArchS390x"
    [] OTHER -> HdrArchUnknown

\* The loop of GetFromDescrID from slot i on; match = 0 stands for -1.
RECURSIVE ScanDescrID(_, _, _, _)
ScanDescrID(arr, id, i, match) ==
  IF i > Len(arr)
  THEN IF match = 0
       THEN [index |-> 0, err |-> "ErrNotFound"]
       ELSE [index |-> match, err |-> "nil"]
  ELSE IF ~arr[i].Used
       THEN ScanDescrID(arr, id, i + 1, match)
       ELSE IF arr[i].ID = id
            THEN IF match # 0
                 THEN [index |-> 0, err |-> "ErrMultValues"]
                 ELSE ScanDescrID(arr, id, i + 1, i)
            ELSE ScanDescrID(arr, id, i + 1, match)

\* GetFromDescrID without the test of the Used flag.
RECURSIVE ScanDescrIDAnySlot(_, _, _, _)
ScanDescrIDAnySlot(arr, id, i, match) ==
  IF i > Len(arr)
  THEN IF match = 0
       THEN [index |-> 0, err |-> "ErrNotFound"]
       ELSE [index |-> match, err |-> "nil"]
  ELSE IF arr[i].ID = id
       THEN IF match # 0
            THEN [index |-> 0, err |-> "ErrMultValues"]
            ELSE ScanDescrIDAnySlot(arr, id, i + 1, i)
       ELSE ScanDescrIDAnySlot(arr, id, i + 1, match)

GetFromDescrID_AnySlot(arr, id) == ScanDescrIDAnySlot(arr, id, 1, 0)

\* GetFromDescrID searches for the used descriptor with the given id.
GetFromDescrID(arr, id) == ScanDescrID(arr, id, 1, 0)

\* GetPartType reading the Fstype field in place of the Parttype field.
GetPartType_Fstype(v) ==
  IF v.Datatype # "DataPartition"
  THEN [ptype |-> "None", err |-> "expected DataPartition"]
  ELSE [ptype |-> v.Fstype, err |-> "nil"]

\* GetPartType extracts the Parttype field of a Partition descriptor.
GetPartType(v) ==
  IF v.Datatype # "DataPartition"
  THEN [ptype |-> "None", err |-> "expected DataPartition"]
  ELSE [ptype |-> v.Parttype, err |-> "nil"]

\* The loop of GetPartPrimSys from slot i on; index = 0 stands for -1.
RECURSIVE ScanPartPrimSys(_, _, _)
ScanPartPrimSys(arr, i, index) ==
  IF i > Len(arr)
  THEN IF index = 0
       THEN [index |-> 0, err |-> "ErrNotFound"]
       ELSE [index |-> index, err |-> "nil"]
  ELSE IF ~arr[i].Used
       THEN ScanPartPrimSys(arr, i + 1, index)
       ELSE IF arr[i].Datatype = "DataPartition"
            THEN IF GetPartType(arr[i]).err # "nil"
                 THEN [index |-> 0, err |-> GetPartType(arr[i]).err]
                 ELSE IF GetPartType(arr[i]).ptype = "PartPrimSys"
                      THEN IF index # 0
                           THEN [index |-> 0, err |-> "ErrMultValues"]
                           ELSE ScanPartPrimSys(arr, i + 1, i)
                      ELSE ScanPartPrimSys(arr, i + 1, index)
            ELSE ScanPartPrimSys(arr, i + 1, index)

\* GetPartPrimSys with a loop that stops at the first used partition.
RECURSIVE ScanFirstPart(_, _)
ScanFirstPart(arr, i) ==
  IF i > Len(arr)
  THEN [index |-> 0, err |-> "ErrNotFound"]
  ELSE IF arr[i].Used /\ arr[i].Datatype = "DataPartition"
       THEN IF GetPartType(arr[i]).ptype = "PartPrimSys"
            THEN [index |-> i, err |-> "nil"]
            ELSE [index |-> 0, err |-> "ErrNotFound"]
       ELSE ScanFirstPart(arr, i + 1)

GetPartPrimSys_FirstPartOnly(arr) == ScanFirstPart(arr, 1)

\* GetPartPrimSys returns the primary system partition if present.
GetPartPrimSys(arr) == ScanPartPrimSys(arr, 1, 0)

\* GetFromLinkedDescr comparing the linked id without the group mask.
GetFromLinkedDescr_NoGroupMask(arr, link) ==
  LET indexes == {i \in 1..Len(arr) :
                    arr[i].Used /\ arr[i].Link.ref = link.ref}
  IN  [indexes |-> indexes,
       err |-> IF indexes = {} THEN "ErrNotFound" ELSE "nil"]

\* GetFromLinkedDescr searches for the used descriptors that point to link.
GetFromLinkedDescr(arr, link) ==
  LET indexes == {i \in 1..Len(arr) : arr[i].Used /\ arr[i].Link = link}
  IN  [indexes |-> indexes,
       err |-> IF indexes = {} THEN "ErrNotFound" ELSE "nil"]

\* The tests of the loop of GetFromDescr: every field of the provided
\* descriptor that is not zero must equal the field of v.
MatchesDescr(descr, v) ==
  /\ (descr.Datatype # "None" => descr.Datatype = v.Datatype)
  /\ (descr.ID # 0 => descr.ID = v.ID)
  /\ (descr.Groupid # 0 => descr.Groupid = v.Groupid)
  /\ (descr.Link # NoLink => descr.Link = v.Link)
  /\ (descr.Fileoff # 0 => descr.Fileoff = v.Fileoff)
  /\ (descr.Filelen # 0 => descr.Filelen = v.Filelen)
  /\ (descr.Storelen # 0 => descr.Storelen = v.Storelen)
  /\ (descr.Ctime # 0 => descr.Ctime = v.Ctime)
  /\ (descr.Mtime # 0 => descr.Mtime = v.Mtime)
  /\ (descr.UID # 0 => descr.UID = v.UID)
  /\ (descr.GID # 0 => descr.GID = v.GID)
  /\ (descr.Name # "" => descr.Name = v.Name)

\* The loop of GetFromDescr from slot i on: the indexes of the matches.
RECURSIVE ScanDescr(_, _, _)
ScanDescr(arr, descr, i) ==
  IF i > Len(arr) THEN <<>>
  ELSE IF ~arr[i].Used THEN ScanDescr(arr, descr, i + 1)
  ELSE IF MatchesDescr(descr, arr[i])
       THEN <<i>> \o ScanDescr(arr, descr, i + 1)
       ELSE ScanDescr(arr, descr, i + 1)

\* GetFromDescr searches for descriptors comparing all non-zero fields of
\* a provided descriptor.
GetFromDescr(arr, descr) ==
  LET indexes == ScanDescr(arr, descr, 1)
  IN  IF Len(indexes) = 0
      THEN [indexes |-> <<>>, err |-> "ErrNotFound"]
      ELSE [indexes |-> indexes, err |-> "nil"]

\* GetData reads the Filelen bytes at Fileoff of the file (io.ReadFull of
\* the section reader): no bytes to read is no error, a section that ends
\* behind the end of the file is EOF or ErrUnexpectedEOF.
GetData(v, h, data) ==
  LET rel == v.Fileoff - h.data_area_off
  IN  IF v.Filelen = 0 THEN [b |-> <<>>, err |-> "nil"]
      ELSE IF rel >= Len(data) THEN [b |-> <<>>, err |-> "EOF"]
      ELSE IF rel + v.Filelen > Len(data)
      THEN [b |-> <<>>, err |-> "ErrUnexpectedEOF"]
      ELSE [b |-> [k \in 1..v.Filelen |-> data[rel + k]], err |-> "nil"]

(***************************************************************************)
(* Options common to the mutations: the time is the clock, a pinned time   *)
(* (WithTime) or zero (Deterministic, which also zeroes the identity).     *)
(***************************************************************************)
TimeOpts ==
  {[kind |-> "now", t |-> 0], [kind |-> "det", t |-> 0]}
    \cup {[kind |-> "with", t |-> t] : t \in 0..MaxTime}

OptTime(topt, clk) ==
  CASE topt.kind = "now" -> clk
    [] topt.kind = "with" -> topt.t
    [] topt.kind = "det" -> 0

OptUID(topt) == IF topt.kind = "det" THEN 0 ELSE CallerUID

\* The container id: WithID pins it, otherwise Create generates a random
\* one (rnd, drawn by the environment); Deterministic zeroes it.
NilID == "00000000-0000-0000-0000-000000000000"

PinnedID == "de170c43-36ab-44a8-bca9-1ea1a070a274"

NoID == ""

RandomIDs == {"uuid-a", "uuid-b"}

\* OptID without the options: the generated id, always.
OptID_Random(topt, withID, rnd) == rnd

OptID(topt, withID, rnd) ==
  IF topt.kind = "det" THEN NilID
  ELSE IF withID # NoID THEN withID
  ELSE rnd

(***************************************************************************)
(* File helpers: the data area is the byte sequence that follows the       *)
(* descriptor table; the file length is data_area_off + Len(data).         *)
(***************************************************************************)
DataAreaOff(cap) == LaunchLen + HeaderLen + cap * DescrLen

FileLen(h, data) == h.data_area_off + Len(data)

Zeros(n) == [k \in 1..n |-> 0]

\* A write that ignores the offset and starts at the data area's first byte.
WriteAt_Start(data, rel, bytes) ==
  [k \in 1..(IF Len(data) > Len(bytes) THEN Len(data) ELSE Len(bytes)) |->
     IF k <= Len(bytes) THEN bytes[k] ELSE data[k]]

\* Positioned write of bytes at offset rel of the data area; a write of no
\* bytes leaves the file as it is, a write past the end extends it.
WriteAt(data, rel, bytes) ==
  LET end == rel + Len(bytes)
      n == IF Len(data) > end THEN Len(data) ELSE end
  IN  IF bytes = <<>> THEN data
      ELSE [k \in 1..n |->
              IF k > rel /\ k <= end THEN bytes[k - rel]
              ELSE IF k <= Len(data) THEN data[k] ELSE 0]

\* Truncate the data area to n bytes.
TruncateTo(data, n) ==
  [k \in 1..n |-> IF k <= Len(data) THEN data[k] ELSE 0]

(***************************************************************************)
(* Descriptor store (specification 4.2).                                   *)
(***************************************************************************)
UsedSlots(arr) == {i \in 1..Len(arr) : arr[i].Used}

\* allocate(): the lowest-index free slot, 0 when the table is full.
Allocate(arr) ==
  IF \A i \in 1..Len(arr) : arr[i].Used THEN 0
  ELSE CHOOSE i \in 1..Len(arr) :
         ~arr[i].Used /\ \A j \in 1..(i - 1) : arr[j].Used

\* free(slot, zero): mark the slot unused; zero overwrites its bytes.
Free(arr, i, zero) ==
  [arr EXCEPT ![i] = IF zero THEN ZeroDescr ELSE [@ EXCEPT !.Used = FALSE]]

\* The largest id among the existing (used) descriptors, 0 when none.
MaxExistingID(arr) ==
  IF UsedSlots(arr) = {} THEN 0
  ELSE CHOOSE m \in {arr[i].ID : i \in UsedSlots(arr)} :
         \A i \in UsedSlots(arr) : arr[i].ID <= m

(***************************************************************************)
(* CreateContainer (specification 4.3): a fresh header, an empty table.    *)
(***************************************************************************)
CreateContainer(topt, withID, rnd, clk) ==
  [h |-> [Arch |-> HdrArchUnknown,
          ID |-> OptID(topt, withID, rnd),
          descr_count |-> 0,
          descr_max |-> MaxDescr,
          data_area_off |-> DataAreaOff(MaxDescr),
          data_area_used |-> 0,
          Ctime |-> OptTime(topt, clk),
          Mtime |-> OptTime(topt, clk)],
   d |-> [i \in 1..MaxDescr |-> ZeroDescr],
   data |-> <<>>]

(***************************************************************************)
(* AddObject (specification 4.4, steps 1-5).                               *)
(***************************************************************************)
\* The closed sets of the format (specification 3): data types, file
\* system types, partition types and architectures, each in the order of
\* its codes from 1; code 0 is no value (for the architecture, unknown).
Enums ==
  [Datatype |-> <<"DataDeffile", "DataEnvVar", "DataLabels",
                  "DataPartition", "DataSignature", "DataGenericJSON",
                  "DataGeneric", "DataCryptoMessage", "DataSBOM",
                  "DataOCIRootIndex", "DataOCIBlob">>,
   Fstype |-> <<"FsSquash", "FsExt3", "FsImmuObj", "FsRaw",
                "FsEncryptedSquash">>,
   Parttype |-> <<"PartSystem", "PartPrimSys", "PartData", "PartOverlay">>,
   Arch |-> <<"HdrArch386", "HdrArchAMD64", "HdrArchARM", "HdrArchARM64",
              "HdrArchPPC64", "HdrArchPPC64le", "HdrArchMIPS",
              "HdrArchMIPSle", "HdrArchMIPS64", "HdrArchMIPS64le",
              "HdrArchS390x">>]

\* Step 1 validates the input before step 2 acquires a slot: the data type
\* must be a recognized one, and a PrimSys partition is refused while a
\* primary partition exists.  The specification gives these refusals no
\* error kind (section 7 has none for them); the two values used here only
\* tell them apart from CapacityExceeded and from each other.
AddObject(img, di, topt, clk) ==
  LET i == Allocate(img.d)
      off == img.h.data_area_off + img.h.data_area_used
      storelen == Len(di.payload) + di.pad
      id == MaxExistingID(img.d) + 1
      descr ==
        [Used |-> TRUE, Datatype |-> di.Datatype, ID |-> id,
         Groupid |-> di.Groupid, Link |-> di.Link,
         Fileoff |-> off, Filelen |-> Len(di.payload), Storelen |-> storelen,
         Ctime |-> OptTime(topt, clk), Mtime |-> OptTime(topt, clk),
         UID |-> OptUID(topt),
         GID |-> IF topt.kind = "det" THEN 0 ELSE CallerGID,
         Fstype |-> di.Fstype,
         Parttype |-> di.Parttype,
         Arch |-> IF di.Datatype = "DataPartition"
                  THEN GetSIFArch(di.Arch) ELSE "None",
         Meta |-> 0,
         Name |-> di.Name]
  IN  IF \A k \in DOMAIN Enums.Datatype : Enums.Datatype[k] # di.Datatype
      THEN [img |-> img, err |-> "UnrecognizedDataType", id |-> 0]
      ELSE IF /\ di.Datatype = "DataPartition"
              /\ di.Parttype = "PartPrimSys"
              /\ GetPartPrimSys(img.d).err # "ErrNotFound"
      THEN [img |-> img, err |-> "PrimaryPartitionExists", id |-> 0]
      ELSE IF i = 0
      THEN [img |-> img, err |-> "CapacityExceeded", id |-> 0]
      ELSE [img |->
              [h |-> [img.h EXCEPT !.descr_count = @ + 1,
                                   !.data_area_used = @ + storelen,
                                   !.Mtime = OptTime(topt, clk)],
               d |-> [img.d EXCEPT ![i] = descr],
               data |-> WriteAt(img.data, img.h.data_area_used,
                                di.payload \o Zeros(di.pad))],
            err |-> "nil", id |-> id]

(***************************************************************************)
(* DeleteObject (specification 4.4, steps 1-5).                            *)
(***************************************************************************)
\* Every object counts as trailing.
IsTrailing_Always(v, h) == TRUE

\* The object occupies the trailing region of the data area.
IsTrailing(v, h) ==
  v.Fileoff + v.Storelen = h.data_area_off + h.data_area_used

DeleteObject(img, id, zero, compact, topt, clk) ==
  LET r == GetFromDescrID(img.d, id)
      v == img.d[r.index]
      trailing == IsTrailing(v, img.h)
      zeroed ==
        IF zero
        THEN WriteAt(img.data, v.Fileoff - img.h.data_area_off,
                     Zeros(v.Filelen))
        ELSE img.data
      used == IF compact /\ trailing
              THEN img.h.data_area_used - v.Storelen
              ELSE img.h.data_area_used
      isPrim == GetPartType(v).err = "nil"
                  /\ GetPartType(v).ptype = "PartPrimSys"
  IN  IF r.err = "ErrNotFound"
      THEN [img |-> img, err |-> "ObjectNotFound"]
      ELSE IF r.err # "nil"
      THEN [img |-> img, err |-> "MultipleObjectsFound"]
      ELSE [img |->
              [h |-> [img.h EXCEPT
                        !.descr_count = @ - 1,
                        !.data_area_used = used,
                        !.Mtime = OptTime(topt, clk),
                        !.Arch = IF isPrim THEN HdrArchUnknown ELSE @],
               d |-> Free(img.d, r.index, zero),
               data |-> IF compact /\ trailing
                        THEN TruncateTo(zeroed, used) ELSE zeroed],
            err |-> "nil"]

(***************************************************************************)
(* SetPrimPart (specification 4.3 and 4.4).                                *)
(***************************************************************************)
SetPrimPart(img, id, topt, clk) ==
  LET r == GetFromDescrID(img.d, id)
      old == GetPartPrimSys(img.d)
      demoted ==
        IF old.err = "nil" /\ old.index # r.index
        THEN [img.d EXCEPT ![old.index].Parttype = "PartSystem"]
        ELSE img.d
  IN  IF r.err = "ErrNotFound"
      THEN [img |-> img, err |-> "ObjectNotFound"]
      ELSE IF r.err # "nil"
      THEN [img |-> img, err |-> "MultipleObjectsFound"]
      ELSE IF img.d[r.index].Datatype # "DataPartition"
      THEN [img |-> img, err |-> "UnexpectedDataType"]
      ELSE IF old.err = "ErrMultValues"
      THEN [img |-> img, err |-> "MultipleObjectsFound"]
      ELSE [img |->
              [h |-> [img.h EXCEPT !.Arch = img.d[r.index].Arch,
                                   !.Mtime = OptTime(topt, clk)],
               d |-> [demoted EXCEPT ![r.index].Parttype = "PartPrimSys"],
               data |-> img.data],
            err |-> "nil"]

(***************************************************************************)
(* SetMetadata (specification 4.3): metadata of a JSON-extra data type.    *)
(***************************************************************************)
SetMetadata(img, id, md, topt, clk) ==
  LET r == GetFromDescrID(img.d, id)
  IN  IF r.err = "ErrNotFound"
      THEN [img |-> img, err |-> "ObjectNotFound"]
      ELSE IF r.err # "nil"
      THEN [img |-> img, err |-> "MultipleObjectsFound"]
      ELSE IF img.d[r.index].Datatype # "DataGeneric"
      THEN [img |-> img, err |-> "UnexpectedDataType"]
      ELSE [img |->
              [h |-> [img.h EXCEPT !.Mtime = OptTime(topt, clk)],
               d |-> [img.d EXCEPT ![r.index].Meta = md],
               data |-> img.data],
            err |-> "nil"]

(***************************************************************************)
(* Inputs of the calls.  A descriptor input carries the data type, the     *)
(* payload, the padding, the group id, the link and the partition          *)
(* metadata (go arch string, as given to OptPartitionMetadata).            *)
(***************************************************************************)
GenericInput(payload, pad, g) ==
  [Datatype |-> "DataGeneric", payload |-> payload, pad |-> pad,
   Groupid |-> g, Link |-> NoLink,
   Fstype |-> "None", Parttype |-> "None", Arch |-> "None", Name |-> ""]

PartitionInput(ptype, goarch) ==
  [Datatype |-> "DataPartition", payload |-> <<250, 206>>, pad |-> 0,
   Groupid |-> 0, Link |-> NoLink,
   Fstype |-> "FsRaw", Parttype |-> ptype, Arch |-> goarch,
   Name |-> "rootfs"]

SignatureInput(link) ==
  [Datatype |-> "DataSignature", payload |-> <<115>>, pad |-> 0,
   Groupid |-> 0, Link |-> link,
   Fstype |-> "None", Parttype |-> "None", Arch |-> "None", Name |-> "sig"]

\* Generic objects of 0, 1 and 2 bytes, one of them padded, one in group 1;
\* partitions; signatures linked to an object and to a group; and an input
\* whose data type is none of the format.
Inputs ==
  {GenericInput(<<>>, 0, 0), GenericInput(<<250>>, 0, 1),
   GenericInput(<<250, 206>>, 0, 0), GenericInput(<<254>>, 1, 0),
   PartitionInput("PartPrimSys", "386"),
   PartitionInput("PartPrimSys", "amd64"),
   PartitionInput("PartSystem", "amd64"),
   SignatureInput(ObjLink(1)), SignatureInput(GroupLink(1)),
   [GenericInput(<<250>>, 0, 0) EXCEPT !.Datatype = "DataType(0)"]}

TimeInputs ==
  {GenericInput(<<250>>, 0, 0), PartitionInput("PartPrimSys", "386")}

Det == [kind |-> "det", t |-> 0]

\* Object ids a caller may pass: every id found in the table (of a used or
\* of a freed slot) and one id that no descriptor has.
IDs == ({DescrArr[i].ID : i \in 1..Len(DescrArr)} \ {0})
         \cup {MaxExistingID(DescrArr) + 1}

(***************************************************************************)
(* The state machine: one action per public mutation of the handle, each   *)
(* applied to the whole container, and the passing of time.                *)
(***************************************************************************)
\* The integrity package before any of its calls.
Idle == [phase |-> "idle"]

\* OnHandle without the test of the handle: the operation always runs.
OnHandle_AlwaysLoaded(r) == r

\* The result of a call on the handle: that of the operation while the
\* handle is loaded, AlreadyUnloaded and no change after UnloadContainer.
OnHandle(r) ==
  IF loaded THEN r
  ELSE [img |-> Image, err |-> "AlreadyUnloaded", id |-> 0]

\* The input of a call that takes none.
NoInput == GenericInput(<<>>, 0, 0)

Call(op, di, r, id, zero, compact, topt) ==
  /\ Header' = r.img.h
  /\ DescrArr' = r.img.d
  /\ Data' = r.img.data
  /\ last' = [op |-> op, err |-> r.err, id |-> id,
              zero |-> zero, compact |-> compact, topt |-> topt]
  /\ steps' = steps + 1
  /\ issued' = IF op = "AddObject" /\ r.err = "nil"
               THEN Append(issued, r.id) ELSE issued
  /\ added' = IF op = "AddObject" /\ r.err = "nil"
              THEN Append(added, di) ELSE added
  /\ UNCHANGED <<now, loaded, integ, readers>>

AddObjectStep(di, topt) ==
  /\ steps < MaxSteps
  /\ LET r == OnHandle(AddObject(Image, di, topt, now))
     IN  Call("AddObject", di, r, r.id, FALSE, FALSE, topt)

DeleteObjectStep(id, zero, compact, topt) ==
  /\ steps < MaxSteps
  /\ Call("DeleteObject", NoInput,
          OnHandle(DeleteObject(Image, id, zero, compact, topt, now)),
          id, zero, compact, topt)

SetPrimPartStep(id, topt) ==
  /\ steps < MaxSteps
  /\ Call("SetPrimPart", NoInput,
          OnHandle(SetPrimPart(Image, id, topt, now)),
          id, FALSE, FALSE, topt)

SetMetadataStep(id, topt) ==
  /\ steps < MaxSteps
  /\ Call("SetMetadata", NoInput,
          OnHandle(SetMetadata(Image, id, 1, topt, now)),
          id, FALSE, FALSE, topt)

\* UnloadContainer: the changes are persisted by each call already, so the
\* file stays as it is; the handle is released, and a second call fails.
UnloadContainerStep ==
  /\ steps < MaxSteps
  /\ loaded' = FALSE
  /\ last' = [op |-> "UnloadContainer",
              err |-> IF loaded THEN "nil" ELSE "AlreadyUnloaded",
              id |-> 0, zero |-> FALSE, compact |-> FALSE, topt |-> Det]
  /\ steps' = steps + 1
  /\ UNCHANGED <<Header, DescrArr, Data, now, issued, added, integ,
                 readers>>

Tick ==
  /\ now < MaxTime
  /\ now' = now + 1
  /\ UNCHANGED <<Header, DescrArr, Data, steps, last, issued, loaded,
                 added, integ, readers>>

InitWith(opts) ==
  /\ now = 1
  /\ \E topt \in opts, rnd \in RandomIDs :
       /\ Header = CreateContainer(topt, PinnedID, rnd, now).h
       /\ DescrArr = CreateContainer(topt, PinnedID, rnd, now).d
       /\ Data = CreateContainer(topt, PinnedID, rnd, now).data
       /\ last = [op |-> "CreateContainer", err |-> "nil", id |-> 0,
                  zero |-> FALSE, compact |-> FALSE, topt |-> topt]
  /\ steps = 0
  /\ issued = <<>>
  /\ loaded = TRUE
  /\ added = <<>>
  /\ integ = Idle
  /\ readers = <<>>

\* Every kind of object, deterministic options.
Init == InitWith({Det})

Next ==
  \/ \E di \in Inputs, topt \in {Det} : AddObjectStep(di, topt)
  \/ \E id \in IDs, zero \in BOOLEAN, compact \in BOOLEAN, topt \in {Det} :
       DeleteObjectStep(id, zero, compact, topt)
  \/ \E id \in IDs, topt \in {Det} : SetPrimPartStep(id, topt)
  \/ \E id \in IDs, topt \in {Det} : SetMetadataStep(id, topt)

Spec == Init /\ [][Next]_vars

\* Every kind of object, deterministic options, every delete compacts.
NextCompact ==
  \/ \E di \in Inputs, topt \in {Det} : AddObjectStep(di, topt)
  \/ \E id \in IDs, zero \in BOOLEAN, topt \in {Det} :
       DeleteObjectStep(id, zero, TRUE, topt)
  \/ \E id \in IDs, topt \in {Det} : SetPrimPartStep(id, topt)
  \/ \E id \in IDs, topt \in {Det} : SetMetadataStep(id, topt)

SpecCompact == Init /\ [][NextCompact]_vars

\* The lifecycle of the handle: two kinds of object, deterministic options,
\* and UnloadContainer at any point.
NextLife ==
  \/ \E di \in TimeInputs, topt \in {Det} : AddObjectStep(di, topt)
  \/ \E id \in IDs, zero \in BOOLEAN, compact \in BOOLEAN, topt \in {Det} :
       DeleteObjectStep(id, zero, compact, topt)
  \/ \E id \in IDs, topt \in {Det} : SetPrimPartStep(id, topt)
  \/ \E id \in IDs, topt \in {Det} : SetMetadataStep(id, topt)
  \/ UnloadContainerStep

SpecLife == Init /\ [][NextLife]_vars

\* Lookups on a loaded table.  The table is any table a file can hold:
\* used and unused slots, ids and group ids that repeat; its objects have
\* the gid of one owner (zero for a deterministic container).
LookupDescrs(gid) ==
  {[ZeroDescr EXCEPT !.Used = u, !.Datatype = "DataGeneric",
                     !.ID = id, !.Groupid = g, !.GID = gid] :
     u \in BOOLEAN, id \in 1..MaxLookupID, g \in 0..1}

\* The descriptors given to GetFromDescr: any of an id, a group id and the
\* gid of an owner, or none.
Templates ==
  {[ZeroDescr EXCEPT !.ID = id, !.Groupid = g, !.GID = gid] :
     id \in 0..(MaxLookupID + 1), g \in 0..1, gid \in {0, CallerGID}}

InitLookup ==
  /\ \E gid \in {0, CallerGID} :
       DescrArr \in [1..MaxDescr -> LookupDescrs(gid)]
  /\ Header = [CreateContainer(Det, NoID, NilID, 0).h EXCEPT
                 !.descr_count = Cardinality(UsedSlots(DescrArr))]
  /\ Data = <<>>
  /\ now = 1
  /\ steps = 0
  /\ last = [op |-> "LoadContainer", err |-> "nil", id |-> 0,
             zero |-> FALSE, compact |-> FALSE, topt |-> Det]
  /\ issued = <<>>
  /\ loaded = TRUE
  /\ added = <<>>
  /\ integ = Idle
  /\ readers = <<>>

GetFromDescrIDStep(id) ==
  /\ steps < 1
  /\ LET r == GetFromDescrID(DescrArr, id)
     IN  last' = [op |-> "GetFromDescrID", err |-> r.err, id |-> id,
                  index |-> r.index]
  /\ steps' = steps + 1
  /\ UNCHANGED <<Header, DescrArr, Data, now, issued, loaded, added, integ,
                 readers>>

GetFromDescrStep(descr) ==
  /\ steps < 1
  /\ LET r == GetFromDescr(DescrArr, descr)
     IN  last' = [op |-> "GetFromDescr", err |-> r.err, descr |-> descr,
                  indexes |-> r.indexes]
  /\ steps' = steps + 1
  /\ UNCHANGED <<Header, DescrArr, Data, now, issued, loaded, added, integ,
                 readers>>

NextLookup ==
  \/ \E id \in 0..(MaxLookupID + 1) : GetFromDescrIDStep(id)
  \/ \E descr \in Templates : GetFromDescrStep(descr)

SpecLookup == InitLookup /\ [][NextLookup]_vars

\* Two kinds of object, every time option, a running clock.
InitTime == InitWith(TimeOpts)

NextTime ==
  \/ /\ steps < MaxTimeSteps
     /\ \/ \E di \in TimeInputs, topt \in TimeOpts : AddObjectStep(di, topt)
        \/ \E id \in IDs, zero \in BOOLEAN, compact \in BOOLEAN,
              topt \in TimeOpts :
             DeleteObjectStep(id, zero, compact, topt)
        \/ \E id \in IDs, topt \in TimeOpts : SetPrimPartStep(id, topt)
        \/ \E id \in IDs, topt \in TimeOpts : SetMetadataStep(id, topt)
  \/ Tick

SpecTime == InitTime /\ [][NextTime]_vars

(***************************************************************************)
(* DSSE encoder and decoder (source: pkg/integrity dsse code).  A signer   *)
(* is a key, the hash it advertises through crypto.SignerOpts ("none"      *)
(* when it does not implement it, "0" for crypto.Hash(0)), and whether its *)
(* PublicKey and SignMessage calls succeed; a verifier is a key and        *)
(* whether its PublicKey call succeeds.  A signature records the key that  *)
(* made it, the hash, and the payload type and payload it was made over.   *)
(***************************************************************************)
metadataMediaType == "application/vnd.sylabs.sif-metadata+json"

testMessage == "message"

TestSigner(key, hash, pubOK, signOK) ==
  [key |-> key, hash |-> hash, pubOK |-> pubOK, signOK |-> signOK]

TestVerifier(key, pubOK) == [key |-> key, pubOK |-> pubOK]

\* newDSSESigner: SHA-256 unless the signer specifies another algorithm.
newDSSESigner(s) ==
  [err |-> IF s.pubOK THEN "nil" ELSE "errPublicKey",
   s |-> s,
   h |-> IF s.hash = "none" THEN "SHA256" ELSE s.hash,
   pub |-> s.key]

\* The loop of newDSSEEncoder from signer i on; h is the hash of the first
\* signer, dss the signers wrapped so far.
RECURSIVE ScanSigners(_, _, _, _)
ScanSigners(ss, i, h, dss) ==
  IF i > Len(ss) THEN [err |-> "nil", h |-> h, dss |-> dss]
  ELSE LET ds == newDSSESigner(ss[i])
       IN  IF ds.err # "nil"
           THEN [err |-> ds.err, h |-> h, dss |-> dss]
           ELSE IF i = 1
           THEN ScanSigners(ss, i + 1, ds.h, Append(dss, ds))
           ELSE IF h # ds.h
           THEN [err |-> "errMultipleHashes", h |-> h, dss |-> dss]
           ELSE ScanSigners(ss, i + 1, h, Append(dss, ds))

\* newDSSEEncoder comparing each signer's hash with the zero hash only.
RECURSIVE ScanSigners_NoCompare(_, _, _, _)
ScanSigners_NoCompare(ss, i, h, dss) ==
  IF i > Len(ss) THEN [err |-> "nil", h |-> h, dss |-> dss]
  ELSE LET ds == newDSSESigner(ss[i])
       IN  IF ds.err # "nil"
           THEN [err |-> ds.err, h |-> h, dss |-> dss]
           ELSE ScanSigners_NoCompare(ss, i + 1,
                                      IF i = 1 THEN ds.h ELSE h,
                                      Append(dss, ds))

\* dsse.NewEnvelopeSigner: no signer is an error.
NewEnvelopeSigner(dss) ==
  IF Len(dss) = 0 THEN "ErrNoSigners" ELSE "nil"

newDSSEEncoder_NoCompare(ss) ==
  LET r == ScanSigners_NoCompare(ss, 1, "0", <<>>)
  IN  IF r.err # "nil" THEN [err |-> r.err]
      ELSE IF NewEnvelopeSigner(r.dss) # "nil"
      THEN [err |-> NewEnvelopeSigner(r.dss)]
      ELSE [err |-> "nil", es |-> r.dss, h |-> r.h,
            payloadType |-> metadataMediaType]

\* newDSSEEncoder returns an encoder that signs messages in DSSE format.
newDSSEEncoder(ss) ==
  LET r == ScanSigners(ss, 1, "0", <<>>)
  IN  IF r.err # "nil" THEN [err |-> r.err]
      ELSE IF NewEnvelopeSigner(r.dss) # "nil"
      THEN [err |-> NewEnvelopeSigner(r.dss)]
      ELSE [err |-> "nil", es |-> r.dss, h |-> r.h,
            payloadType |-> metadataMediaType]

\* dsseSigner.Sign over the pre-authentication encoding of the payload type
\* and the payload.
Sign(ds, payloadType, body) ==
  [KeyID |-> ds.pub, by |-> ds.pub, hash |-> ds.h,
   over |-> <<payloadType, body>>, ok |-> TRUE]

\* EnvelopeSigner.SignPayload: one signature per signer, in order.
SignPayload(es, payloadType, body) ==
  IF \E i \in 1..Len(es) : ~es[i].s.signOK
  THEN [err |-> "errSign"]
  ELSE [err |-> "nil",
        e |-> [PayloadType |-> payloadType, Payload |-> body,
               Signatures |->
                 [i \in 1..Len(es) |-> Sign(es[i], payloadType, body)]]]

\* signMessage signs the message in DSSE format; on success the hash
\* function is returned.
signMessage(en, body) ==
  LET r == SignPayload(en.es, en.payloadType, body)
  IN  IF r.err # "nil" THEN [h |-> "0", err |-> r.err]
      ELSE [h |-> en.h, err |-> "nil", e |-> r.e]

\* newDSSEDecoder: the envelope is verified if one verifier succeeds.
newDSSEDecoder(vs) ==
  [vs |-> vs, threshold |-> 1, payloadType |-> metadataMediaType]

newDSSEVerifier(v, h) ==
  [err |-> IF v.pubOK THEN "nil" ELSE "errPublicKey",
   v |-> v, h |-> h, pub |-> v.key]

\* dsseVerifier.Verify: sig is a valid signature of the encoding of the
\* envelope's payload type and payload, made by the verifier's key with the
\* hash the verifier is given.
VerifySig(dv, e, sig) ==
  /\ sig.ok
  /\ sig.by = dv.pub
  /\ sig.hash = dv.h
  /\ sig.over = <<e.PayloadType, e.Payload>>

\* The loop of EnvelopeVerifier.Verify from signature i on: a signature is
\* accepted by the first verifier not yet used that has its key id and
\* verifies it; other signatures are skipped.
RECURSIVE VerifySigs(_, _, _, _, _)
VerifySigs(e, i, vs, unverified, acc) ==
  IF i > Len(e.Signatures) THEN acc
  ELSE LET sig == e.Signatures[i]
           ok == {k \in unverified :
                    sig.KeyID = vs[k].pub /\ VerifySig(vs[k], e, sig)}
       IN  IF ok = {} THEN VerifySigs(e, i + 1, vs, unverified, acc)
           ELSE LET k == CHOOSE k \in ok : \A j \in ok : k <= j
                IN  VerifySigs(e, i + 1, vs, unverified \ {k},
                               Append(acc, vs[k].pub))

\* dsse.NewMultiEnvelopeVerifier(threshold, vs...).Verify(e).
EnvelopeVerify(threshold, vs, e) ==
  IF Len(e.Signatures) = 0 THEN [aks |-> <<>>, err |-> "ErrNoSignature"]
  ELSE LET acc == VerifySigs(e, 1, vs, 1..Len(vs), <<>>)
       IN  IF Len(acc) < threshold
           THEN [aks |-> acc, err |-> "errThresholdNotMet"]
           ELSE [aks |-> acc, err |-> "nil"]

\* verifyMessage with the payload type test in front of the signatures.
verifyMessage_TypeFirst(de, e, h) ==
  IF e.PayloadType # de.payloadType
  THEN [message |-> "", err |-> "errDSSEUnexpectedPayloadType",
        aks |-> <<>>]
  ELSE LET vs == [i \in 1..Len(de.vs) |-> newDSSEVerifier(de.vs[i], h)]
           r == EnvelopeVerify(de.threshold, vs, e)
       IN  IF r.err # "nil"
           THEN [message |-> "", err |-> "errDSSEVerifyEnvelopeFailed",
                 aks |-> r.aks]
           ELSE [message |-> e.Payload, err |-> "nil", aks |-> r.aks]

\* verifyMessage accepting an envelope no verifier has validated.
verifyMessage_NoThreshold(de, e, h) ==
  LET vs == [i \in 1..Len(de.vs) |-> newDSSEVerifier(de.vs[i], h)]
      r == EnvelopeVerify(0, vs, e)
  IN  IF \E i \in 1..Len(vs) : vs[i].err # "nil"
      THEN [message |-> "", err |-> "errPublicKey", aks |-> <<>>]
      ELSE IF r.err # "nil"
      THEN [message |-> "", err |-> "errDSSEVerifyEnvelopeFailed",
            aks |-> r.aks]
      ELSE IF e.PayloadType # de.payloadType
      THEN [message |-> "", err |-> "errDSSEUnexpectedPayloadType",
            aks |-> r.aks]
      ELSE [message |-> e.Payload, err |-> "nil", aks |-> r.aks]

\* verifyMessage verifies the signatures of the envelope and returns the
\* message; the accepted public keys are set in the result.
verifyMessage(de, e, h) ==
  LET vs == [i \in 1..Len(de.vs) |-> newDSSEVerifier(de.vs[i], h)]
      r == EnvelopeVerify(de.threshold, vs, e)
  IN  IF \E i \in 1..Len(vs) : vs[i].err # "nil"
      THEN [message |-> "", err |-> "errPublicKey", aks |-> <<>>]
      ELSE IF de.threshold <= 0 \/ de.threshold > Len(vs)
      THEN [message |-> "", err |-> "errThreshold", aks |-> <<>>]
      ELSE IF r.err # "nil"
      THEN [message |-> "", err |-> "errDSSEVerifyEnvelopeFailed",
            aks |-> r.aks]
      ELSE IF e.PayloadType # de.payloadType
      THEN [message |-> "", err |-> "errDSSEUnexpectedPayloadType",
            aks |-> r.aks]
      ELSE [message |-> e.Payload, err |-> "nil", aks |-> r.aks]

\* The corrupters of the tests, and a payload type changed in flight.
\* corruptPayloadType re-signs the payload under the type "bad".
corruptPayloadType(en, e) == SignPayload(en.es, "bad", e.Payload).e

corruptPayload(e) == [e EXCEPT !.Payload = "messag"]

corruptSignatures(e) ==
  [e EXCEPT !.Signatures =
     [i \in 1..Len(e.Signatures) |-> [e.Signatures[i] EXCEPT !.ok = FALSE]]]

retypePayload(e) == [e EXCEPT !.PayloadType = "bad"]

\* The signers and verifiers of the runs: three keys, signers that
\* advertise SHA-256, SHA-384, the zero hash or nothing, one whose public
\* key cannot be read and one that fails to sign.
Signers ==
  {TestSigner("ecdsa", "none", TRUE, TRUE),
   TestSigner("ed25519", "0", TRUE, TRUE),
   TestSigner("rsa", "SHA256", TRUE, TRUE),
   TestSigner("rsa", "SHA384", TRUE, TRUE),
   TestSigner("ed25519", "SHA256", FALSE, TRUE),
   TestSigner("ed25519", "SHA256", TRUE, FALSE)}

Verifiers ==
  {TestVerifier("ecdsa", TRUE), TestVerifier("rsa", TRUE),
   TestVerifier("ed25519", TRUE), TestVerifier("ed25519", FALSE)}

\* The sequences of at most n elements of S.
SeqUpTo(S, n) == UNION {[1..k -> S] : k \in 0..n}

\* The verifiers of a decoder: each key once.
VerifierLists ==
  {vs \in SeqUpTo(Verifiers, MaxSigners) :
     \A i \in 1..Len(vs) : \A j \in 1..Len(vs) :
       i # j => vs[i].key # vs[j].key}

NewDSSEEncoderStep(ss) ==
  /\ integ.phase = "idle"
  /\ integ' = [phase |-> "encoder", ss |-> ss, en |-> newDSSEEncoder(ss)]
  /\ UNCHANGED <<Header, DescrArr, Data, now, steps, last, issued, loaded,
                 added, readers>>

SignMessageStep ==
  /\ integ.phase = "encoder"
  /\ integ.en.err = "nil"
  /\ integ' = [phase |-> "signed", ss |-> integ.ss, en |-> integ.en,
               sm |-> signMessage(integ.en, testMessage),
               corrupter |-> "none"]
  /\ UNCHANGED <<Header, DescrArr, Data, now, steps, last, issued, loaded,
                 added, readers>>

CorruptStep(c) ==
  /\ integ.phase = "signed"
  /\ integ.sm.err = "nil"
  /\ integ.corrupter = "none"
  /\ integ' =
       [integ EXCEPT
          !.corrupter = c,
          !.sm.e = CASE c = "corruptPayloadType"
                          -> corruptPayloadType(integ.en, integ.sm.e)
                     [] c = "corruptPayload" -> corruptPayload(integ.sm.e)
                     [] c = "corruptSignatures"
                          -> corruptSignatures(integ.sm.e)
                     [] c = "retypePayload" -> retypePayload(integ.sm.e)]
  /\ UNCHANGED <<Header, DescrArr, Data, now, steps, last, issued, loaded,
                 added, readers>>

VerifyMessageStep(vs) ==
  /\ integ.phase = "signed"
  /\ integ.sm.err = "nil"
  /\ LET de == newDSSEDecoder(vs)
     IN  integ' = [phase |-> "verified", ss |-> integ.ss, en |-> integ.en,
                   sm |-> integ.sm, corrupter |-> integ.corrupter,
                   de |-> de,
                   vr |-> verifyMessage(de, integ.sm.e, integ.sm.h)]
  /\ UNCHANGED <<Header, DescrArr, Data, now, steps, last, issued, loaded,
                 added, readers>>

NextDSSE ==
  \/ \E ss \in SeqUpTo(Signers, MaxSigners) : NewDSSEEncoderStep(ss)
  \/ SignMessageStep
  \/ \E c \in {"corruptPayloadType", "corruptPayload", "corruptSignatures",
               "retypePayload"} : CorruptStep(c)
  \/ \E vs \in VerifierLists : VerifyMessageStep(vs)

SpecDSSE == Init /\ [][NextDSSE]_vars

(***************************************************************************)
(* Properties.                                                             *)
(***************************************************************************)
PrimSysSlots(arr) ==
  {i \in UsedSlots(arr) :
     arr[i].Datatype = "DataPartition" /\ arr[i].Parttype = "PartPrimSys"}

\* The used slots whose descriptor has the given id.
SlotsOfID(arr, id) == {i \in UsedSlots(arr) : arr[i].ID = id}

\* C1: the header's live-descriptor count equals the number of descriptor
\* slots whose used flag is true, after every call, failed or not.
C1_DescrCount == Header.descr_count = Cardinality(UsedSlots(DescrArr))

\* A successful DeleteObject that leaves one descriptor in use.
C1_Witness ==
  /\ last.op = "DeleteObject"
  /\ last.err = "nil"
  /\ Header.descr_count = 1

\* C2: the ids assigned by successive successful AddObject calls are
\* strictly increasing, so the id of a deleted object is never assigned
\* again.
C2_MonotonicIds ==
  \A i \in DOMAIN issued : \A j \in DOMAIN issued :
    i < j => issued[i] < issued[j]

\* C3: at most one used Partition descriptor has part_type PrimSys, so
\* GetPartPrimSys never returns the multiple-values error.
C3_OnePrimSys ==
  /\ Cardinality(PrimSysSlots(DescrArr)) <= 1
  /\ GetPartPrimSys(DescrArr).err # "ErrMultValues"

\* AddObject of a PrimSys partition refused because a primary exists.
C3_Witness ==
  /\ last.op = "AddObject"
  /\ last.err = "PrimaryPartitionExists"
  /\ Cardinality(PrimSysSlots(DescrArr)) = 1

\* C4: every used descriptor with a non-zero link refers to the id of a
\* used descriptor or, with the group-link bit, to the group id of at
\* least one used descriptor.
C4_LinksResolve ==
  \A i \in UsedSlots(DescrArr) :
    LET l == DescrArr[i].Link
    IN  l # NoLink =>
          IF l.group
          THEN \E j \in UsedSlots(DescrArr) : DescrArr[j].Groupid = l.ref
          ELSE \E j \in UsedSlots(DescrArr) : DescrArr[j].ID = l.ref

\* C5: every used descriptor lies inside the data area:
\* data_area_off <= file_off and
\* file_off + file_len <= data_area_off + data_area_used.
C5_WithinDataArea ==
  \A i \in UsedSlots(DescrArr) :
    /\ Header.data_area_off <= DescrArr[i].Fileoff
    /\ DescrArr[i].Fileoff + DescrArr[i].Filelen
         <= Header.data_area_off + Header.data_area_used

\* The end of the last surviving object, the start of the data area when
\* no object survives.
LastObjectEnd ==
  IF UsedSlots(DescrArr) = {} THEN Header.data_area_off
  ELSE CHOOSE e \in {DescrArr[i].Fileoff + DescrArr[i].Storelen :
                       i \in UsedSlots(DescrArr)} :
         \A i \in UsedSlots(DescrArr) :
           DescrArr[i].Fileoff + DescrArr[i].Storelen <= e

\* C6: when every delete uses Compact, the file length equals
\* data_area_off + data_area_used and the data area ends exactly at the end
\* of the last surviving object (it is empty when no object survives).
C6_NoTrailingHole ==
  /\ FileLen(Header, Data) = Header.data_area_off + Header.data_area_used
  /\ Header.data_area_off + Header.data_area_used = LastObjectEnd

\* C7: with deterministic options, AddObject(x) followed by
\* DeleteObject(id(x), Compact) returns the header, every descriptor slot
\* and the data area to the state before the AddObject.
C7_AddDeleteRestores ==
  \A di \in Inputs :
    LET a == AddObject(Image, di, Det, now)
        b == DeleteObject(a.img, a.id, FALSE, TRUE, Det, now)
    IN  a.err = "nil" => (b.err = "nil" /\ b.img = Image)

\* C8: the header's modification time never decreases, except in a call
\* where the caller pins an earlier time (WithTime, or Deterministic's
\* zero).
C8_MtimeMonotonic ==
  [][\/ Header'.Mtime >= Header.Mtime
     \/ /\ last'.topt.kind # "now"
        /\ OptTime(last'.topt, now) < Header.Mtime]_vars

\* C9: SetPrimPart(id) on a used Partition descriptor succeeds, makes that
\* descriptor PrimSys, changes the previous primary partition (if any, and
\* if different) to System, sets the header architecture to the target's,
\* and leaves every other descriptor and the data area unchanged.
C9_SetPrimPart ==
  [][(/\ last'.op = "SetPrimPart"
      /\ steps' = steps + 1
      /\ \E i \in SlotsOfID(DescrArr, last'.id) :
           DescrArr[i].Datatype = "DataPartition")
     => LET t == CHOOSE i \in SlotsOfID(DescrArr, last'.id) : TRUE
        IN  /\ last'.err = "nil"
            /\ DescrArr'[t] = [DescrArr[t] EXCEPT !.Parttype = "PartPrimSys"]
            /\ Header'.Arch = DescrArr[t].Arch
            /\ \A i \in (1..Len(DescrArr)) \ {t} :
                 DescrArr'[i] =
                   IF i \in PrimSysSlots(DescrArr)
                   THEN [DescrArr[i] EXCEPT !.Parttype = "PartSystem"]
                   ELSE DescrArr[i]
            /\ Data' = Data]_vars

\* A successful SetPrimPart after which a partition of architecture 386,
\* which only a PrimSys input has, is a plain System partition, next to the
\* new primary and a third object.
C9_Witness ==
  /\ last.op = "SetPrimPart"
  /\ last.err = "nil"
  /\ Cardinality(UsedSlots(DescrArr)) = 3
  /\ Header.Arch = "HdrArchAMD64"
  /\ \E i \in UsedSlots(DescrArr) :
       /\ DescrArr[i].Datatype = "DataPartition"
       /\ DescrArr[i].Parttype = "PartSystem"
       /\ DescrArr[i].Arch = "HdrArch386"
  /\ \E i \in PrimSysSlots(DescrArr) : DescrArr[i].ID = last.id

\* C10: DeleteObject(id) and SetPrimPart(id) with an id that matches no used
\* descriptor fail with ObjectNotFound and leave the header, every
\* descriptor slot and the data area unchanged.
C10_NotFoundUnchanged ==
  [][(/\ last'.op \in {"DeleteObject", "SetPrimPart"}
      /\ steps' = steps + 1
      /\ SlotsOfID(DescrArr, last'.id) = {})
     => /\ last'.err = "ObjectNotFound"
        /\ Header' = Header
        /\ DescrArr' = DescrArr
        /\ Data' = Data]_vars

\* A DeleteObject of the id of an object that was deleted before, refused
\* with ObjectNotFound.
C10_Witness ==
  /\ last.op = "DeleteObject"
  /\ last.err = "ObjectNotFound"
  /\ \E i \in 1..Len(DescrArr) : ~DescrArr[i].Used /\ DescrArr[i].ID = last.id
  /\ UsedSlots(DescrArr) # {}

\* C11: a DeleteObject that removes the primary system partition sets the
\* header architecture to unknown, a DeleteObject of any other descriptor
\* leaves it as it is, and the header architecture is other than unknown
\* only while a PrimSys partition exists.
C11_ArchFollowsPrimary ==
  /\ [][(/\ last'.op = "DeleteObject"
         /\ steps' = steps + 1
         /\ SlotsOfID(DescrArr, last'.id) # {})
        => /\ last'.err = "nil"
           /\ Header'.Arch =
                IF SlotsOfID(DescrArr, last'.id)
                     \subseteq PrimSysSlots(DescrArr)
                THEN HdrArchUnknown ELSE Header.Arch]_vars
  /\ [](Header.Arch # HdrArchUnknown => PrimSysSlots(DescrArr) # {})

\* A successful DeleteObject of the primary partition of a container in
\* which SetPrimPart had demoted the 386 partition (only a PrimSys input has
\* that architecture), so that the header architecture was set before.
C11_Witness ==
  /\ last.op = "DeleteObject"
  /\ last.err = "nil"
  /\ ~last.zero
  /\ Header.Arch = HdrArchUnknown
  /\ \E i \in 1..Len(DescrArr) :
       /\ ~DescrArr[i].Used
       /\ DescrArr[i].ID = last.id
       /\ DescrArr[i].Parttype = "PartPrimSys"
       /\ DescrArr[i].Arch = "HdrArchAMD64"
  /\ \E i \in UsedSlots(DescrArr) :
       /\ DescrArr[i].Parttype = "PartSystem"
       /\ DescrArr[i].Arch = "HdrArch386"

\* The table has no free slot.
TableFull == UsedSlots(DescrArr) = 1..Len(DescrArr)

\* The validation of AddObject (step 1) refuses the input: its data type is
\* none of the format, or it is a PrimSys partition and a primary partition
\* exists.
Refused(di) ==
  \/ \A k \in DOMAIN Enums.Datatype : Enums.Datatype[k] # di.Datatype
  \/ /\ di.Datatype = "DataPartition"
     /\ di.Parttype = "PartPrimSys"
     /\ PrimSysSlots(DescrArr) # {}

C13_Lifecycle ==
  [][/\ (last'.op = "UnloadContainer" /\ steps' = steps + 1)
          => /\ last'.err = IF loaded THEN "nil" ELSE "AlreadyUnloaded"
             /\ ~loaded'
             /\ <<Header, DescrArr, Data>>' = <<Header, DescrArr, Data>>
     /\ (last'.op # "UnloadContainer" /\ steps' = steps + 1 /\ ~loaded)
          => /\ last'.err = "AlreadyUnloaded"
             /\ ~loaded'
             /\ <<Header, DescrArr, Data>>' = <<Header, DescrArr, Data>>
     /\ (last'.op # "UnloadContainer" /\ steps' = steps + 1 /\ loaded)
          => (loaded' /\ last'.err # "AlreadyUnloaded")
     /\ (~loaded => ~loaded')]_vars

\* A DeleteObject of the id of a used descriptor refused with
\* AlreadyUnloaded on a handle that was unloaded after two objects were
\* added.
C13_Witness ==
  /\ ~loaded
  /\ last.op = "DeleteObject"
  /\ last.err = "AlreadyUnloaded"
  /\ SlotsOfID(DescrArr, last.id) # {}
  /\ Header.descr_count = 2

(***************************************************************************)
(* The binary codec and the loader (specification 3, 4.1 and 4.3).  The    *)
(* file is the encoded header, the encoded descriptor slots and the data   *)
(* area; every field has a fixed width, integers are little-endian, the    *)
(* name is padded with NUL bytes.                                          *)
(***************************************************************************)
\* The w bytes of the unsigned integer n, the least significant first.
RECURSIVE PutUint(_, _)
PutUint(n, w) ==
  IF w = 0 THEN <<>> ELSE <<n % 256>> \o PutUint(n \div 256, w - 1)

\* The unsigned integer of little-endian bytes.
RECURSIVE Uint(_)
Uint(b) == IF b = <<>> THEN 0 ELSE b[1] + 256 * Uint(Tail(b))

\* The bytes of the object names in use.
NameBytes(name) ==
  CASE name = "" -> <<>>
    [] name = "rootfs" -> <<114, 111, 111, 116, 102, 115>>
    [] name = "sig" -> <<115, 105, 103>>

\* One descriptor slot encoded: the used flag, the code of the data type,
\* id, group id, the link with its high bit set for a group link, offsets,
\* lengths, times and identity, the name padded with NUL bytes (to 8 bytes
\* here), and the extra buffer: the codes of a partition's file system
\* type, partition type and architecture, the metadata of other types.
EncodeDescr(d) ==
  LET code(seq, v) ==
        IF \E k \in DOMAIN seq : seq[k] = v
        THEN CHOOSE k \in DOMAIN seq : seq[k] = v ELSE 0
      link == PutUint(d.Link.ref, 4)
      name == NameBytes(d.Name)
  IN  [Used |-> <<IF d.Used THEN 1 ELSE 0>>,
       Datatype |-> PutUint(code(Enums.Datatype, d.Datatype), 4),
       ID |-> PutUint(d.ID, 4),
       Groupid |-> PutUint(d.Groupid, 4),
       Link |-> [link EXCEPT ![4] = @ + (IF d.Link.group THEN 128 ELSE 0)],
       Fileoff |-> PutUint(d.Fileoff, 8),
       Filelen |-> PutUint(d.Filelen, 8),
       Storelen |-> PutUint(d.Storelen, 8),
       Ctime |-> PutUint(d.Ctime, 8),
       Mtime |-> PutUint(d.Mtime, 8),
       UID |-> PutUint(d.UID, 4),
       GID |-> PutUint(d.GID, 4),
       Name |-> name \o Zeros(8 - Len(name)),
       Extra |-> IF d.Datatype = "DataPartition"
                 THEN PutUint(code(Enums.Fstype, d.Fstype), 4)
                        \o PutUint(code(Enums.Parttype, d.Parttype), 4)
                        \o PutUint(code(Enums.Arch, d.Arch), 4)
                 ELSE PutUint(d.Meta, 4) \o Zeros(8)]

\* One descriptor slot decoded; a code that is none of the format decodes
\* to no value.
DecodeDescr(raw) ==
  LET value(seq, c, none) == IF c \in DOMAIN seq THEN seq[c] ELSE none
      datatype == value(Enums.Datatype, Uint(raw.Datatype), "None")
      part == datatype = "DataPartition"
      chars == SelectSeq(raw.Name, LAMBDA c : c # 0)
  IN  [Used |-> raw.Used # <<0>>,
       Datatype |-> datatype,
       ID |-> Uint(raw.ID),
       Groupid |-> Uint(raw.Groupid),
       Link |-> [group |-> raw.Link[4] >= 128,
                 ref |-> Uint([raw.Link EXCEPT ![4] = @ % 128])],
       Fileoff |-> Uint(raw.Fileoff),
       Filelen |-> Uint(raw.Filelen),
       Storelen |-> Uint(raw.Storelen),
       Ctime |-> Uint(raw.Ctime),
       Mtime |-> Uint(raw.Mtime),
       UID |-> Uint(raw.UID),
       GID |-> Uint(raw.GID),
       Fstype |-> IF part
                  THEN value(Enums.Fstype, Uint(SubSeq(raw.Extra, 1, 4)),
                             "None")
                  ELSE "None",
       Parttype |-> IF part
                    THEN value(Enums.Parttype,
                               Uint(SubSeq(raw.Extra, 5, 8)), "None")
                    ELSE "None",
       Arch |-> IF part
                THEN value(Enums.Arch, Uint(SubSeq(raw.Extra, 9, 12)),
                           HdrArchUnknown)
                ELSE "None",
       Meta |-> IF part THEN 0 ELSE Uint(SubSeq(raw.Extra, 1, 4)),
       Name |-> CHOOSE n \in {"", "rootfs", "sig"} : NameBytes(n) = chars]

\* The bytes of the file that the container is persisted as.
Encode(img) ==
  [h |-> [img.h EXCEPT
            !.Arch = IF \E k \in DOMAIN Enums.Arch : Enums.Arch[k] = @
                     THEN CHOOSE k \in DOMAIN Enums.Arch : Enums.Arch[k] = @
                     ELSE 0,
            !.descr_count = PutUint(@, 8),
            !.descr_max = PutUint(@, 8),
            !.data_area_off = PutUint(@, 8),
            !.data_area_used = PutUint(@, 8),
            !.Ctime = PutUint(@, 8),
            !.Mtime = PutUint(@, 8)],
   d |-> [i \in DOMAIN img.d |-> EncodeDescr(img.d[i])],
   data |-> img.data]

\* LoadFromPath: the header and the table are decoded and invariants 1-5
\* are validated: the count of used slots, the objects inside the data
\* area, unique positive ids, links that resolve, at most one primary
\* partition; FormatInvalid when a check fails.
LoadFromPath(file) ==
  LET h == [file.h EXCEPT
              !.Arch = IF @ \in DOMAIN Enums.Arch THEN Enums.Arch[@]
                       ELSE HdrArchUnknown,
              !.descr_count = Uint(@),
              !.descr_max = Uint(@),
              !.data_area_off = Uint(@),
              !.data_area_used = Uint(@),
              !.Ctime = Uint(@),
              !.Mtime = Uint(@)]
      arr == [i \in DOMAIN file.d |-> DecodeDescr(file.d[i])]
      used == UsedSlots(arr)
      valid ==
        /\ h.descr_count = Cardinality(used)
        /\ \A i \in used :
             /\ arr[i].Datatype # "None"
             /\ h.data_area_off <= arr[i].Fileoff
             /\ arr[i].Fileoff + arr[i].Filelen
                  <= h.data_area_off + h.data_area_used
             /\ arr[i].ID > 0
             /\ \A j \in used : arr[j].ID = arr[i].ID => j = i
             /\ arr[i].Link # NoLink =>
                  \E j \in used :
                    IF arr[i].Link.group
                    THEN arr[j].Groupid = arr[i].Link.ref
                    ELSE arr[j].ID = arr[i].Link.ref
        /\ Cardinality({i \in used : /\ arr[i].Datatype = "DataPartition"
                                    /\ arr[i].Parttype = "PartPrimSys"})
             <= 1
  IN  IF valid
      THEN [img |-> [h |-> h, d |-> arr, data |-> file.data], err |-> "nil"]
      ELSE [img |-> [h |-> h, d |-> <<>>, data |-> <<>>],
            err |-> "FormatInvalid"]

\* C14: after Create and k successful AddObject calls and nothing else,
\* loading the file yields exactly k used descriptors, in the order added,
\* whose data types, group ids, links and names equal the inputs and whose
\* payload read through GetData equals the supplied payload.
C14_RoundTrip ==
  Len(added) = steps =>
    LET l == LoadFromPath(Encode(Image))
        ds == SelectSeq(l.img.d, LAMBDA v : v.Used)
    IN  /\ l.err = "nil"
        /\ Len(ds) = Len(added)
        /\ \A k \in 1..Len(added) :
             /\ ds[k].Datatype = added[k].Datatype
             /\ ds[k].Groupid = added[k].Groupid
             /\ ds[k].Link = added[k].Link
             /\ ds[k].Name = added[k].Name
             /\ GetData(ds[k], l.img.h, l.img.data)
                  = [b |-> added[k].payload, err |-> "nil"]

\* The create options C15 is about: Deterministic, or a pinned time
\* together with a pinned id.
FixedCreateOpts == TimeOpts \ {[kind |-> "now", t |-> 0]}

\* C15: the file produced by Create with fixed options and by each
\* AddObject, DeleteObject, SetPrimPart and SetMetadata call with
\* deterministic options depends on the options, the inputs and the file
\* before the call only: not on the clock and not on the generated id, so
\* two runs of the same calls produce identical files.
C15_Deterministic ==
  \A clk \in 0..MaxTime :
    /\ \A topt \in FixedCreateOpts : \A r1 \in RandomIDs : \A r2 \in RandomIDs :
         CreateContainer(topt, PinnedID, r1, clk)
           = CreateContainer(topt, PinnedID, r2, now)
    /\ \A di \in TimeInputs :
         AddObject(Image, di, Det, clk) = AddObject(Image, di, Det, now)
    /\ \A id \in IDs :
         /\ \A zero \in BOOLEAN : \A compact \in BOOLEAN :
              DeleteObject(Image, id, zero, compact, Det, clk)
                = DeleteObject(Image, id, zero, compact, Det, now)
         /\ SetPrimPart(Image, id, Det, clk) = SetPrimPart(Image, id, Det, now)
         /\ SetMetadata(Image, id, 1, Det, clk)
              = SetMetadata(Image, id, 1, Det, now)

\* A deterministic call that succeeded at a clock value other than the one
\* the container was created at, on a container created with a pinned time
\* and id.
C15_Witness ==
  /\ now > 1
  /\ steps = 2
  /\ last.topt = Det
  /\ last.err = "nil"
  /\ last.op = "SetPrimPart"
  /\ Header.ID = PinnedID
  /\ Header.Ctime = MaxTime

\* C16: GetFromDescrID returns a descriptor exactly when one used
\* descriptor has the id, fails with ErrNotFound when none has and with
\* ErrMultValues when more than one has; GetFromDescr returns all the used
\* descriptors that match, in table order; no lookup returns a slot whose
\* used flag is false.
C16_Lookups ==
  /\ last.op = "GetFromDescrID" =>
       LET m == SlotsOfID(DescrArr, last.id)
       IN  /\ (Cardinality(m) = 1 <=> last.err = "nil")
           /\ (last.err = "nil" => last.index \in m)
           /\ (m = {} <=> last.err = "ErrNotFound")
           /\ (Cardinality(m) > 1 <=> last.err = "ErrMultValues")
  /\ last.op = "GetFromDescr" =>
       LET m == {i \in UsedSlots(DescrArr) :
                   /\ (last.descr.ID # 0 => DescrArr[i].ID = last.descr.ID)
                   /\ (last.descr.Groupid # 0
                         => DescrArr[i].Groupid = last.descr.Groupid)
                   /\ (last.descr.GID # 0
                         => DescrArr[i].GID = last.descr.GID)}
       IN  /\ {last.indexes[k] : k \in 1..Len(last.indexes)} = m
           /\ \A k \in 1..(Len(last.indexes) - 1) :
                last.indexes[k] < last.indexes[k + 1]
           /\ (m = {} <=> last.err = "ErrNotFound")
           /\ (m # {} <=> last.err = "nil")

\* GetFromDescrID of an id that one used descriptor has, in a table where
\* an unused slot in front of it carries the same id.
C16_Witness ==
  /\ last.op = "GetFromDescrID"
  /\ last.err = "nil"
  /\ \E i \in 1..Len(DescrArr) :
       i < last.index /\ ~DescrArr[i].Used /\ DescrArr[i].ID = last.id

\* The hash a signer advertises: SHA-256 when it advertises none.
HashOf(s) == IF s.hash = "none" THEN "SHA256" ELSE s.hash

SignersDiffer(ss) ==
  \E i \in 1..Len(ss) : \E j \in 1..Len(ss) : HashOf(ss[i]) # HashOf(ss[j])

\* C17 as stated: an encoder is constructed only from signers that
\* advertise the same hash function, two signers that differ make the
\* construction fail with MultipleHashAlgorithms, and a successful
\* signMessage reports the common hash (SHA-256 for signers advertising
\* none).
C17_MultipleHashes ==
  integ.phase # "idle" =>
    /\ integ.en.err = "nil" => ~SignersDiffer(integ.ss)
    /\ SignersDiffer(integ.ss) => integ.en.err = "errMultipleHashes"
    /\ (integ.phase # "encoder" /\ integ.sm.err = "nil") =>
         \A i \in 1..Len(integ.ss) : integ.sm.h = HashOf(integ.ss[i])

\* The signers in front of the first one whose hash differs from the first
\* signer's all give their public key.
ReachesDifference(ss) ==
  \E j \in 1..Len(ss) :
    /\ HashOf(ss[j]) # HashOf(ss[1])
    /\ \A i \in 1..j : ss[i].pubOK

\* C17 amended: an encoder is constructed only from signers that advertise
\* the same hash function; two signers that differ make the construction
\* fail, with MultipleHashAlgorithms when every signer up to the first one
\* that differs from the first signer gives its public key, and with the
\* public key error of the first signer that does not otherwise; a
\* successful signMessage reports the common hash (SHA-256 for signers
\* advertising none).
C17_MultipleHashesOrKeyError ==
  integ.phase # "idle" =>
    /\ integ.en.err = "nil" => ~SignersDiffer(integ.ss)
    /\ SignersDiffer(integ.ss) =>
         integ.en.err = IF ReachesDifference(integ.ss)
                        THEN "errMultipleHashes" ELSE "errPublicKey"
    /\ integ.en.err = "errMultipleHashes" => SignersDiffer(integ.ss)
    /\ (integ.phase # "encoder" /\ integ.sm.err = "nil") =>
         \A i \in 1..Len(integ.ss) : integ.sm.h = HashOf(integ.ss[i])

\* Two signers that give their public keys and advertise SHA-256 and
\* SHA-384 have been refused with MultipleHashAlgorithms.
C17_Witness ==
  /\ integ.phase = "encoder"
  /\ Len(integ.ss) = 2
  /\ integ.ss[1].hash = "SHA256" /\ integ.ss[2].hash = "SHA384"
  /\ integ.ss[1].pubOK /\ integ.ss[2].pubOK
  /\ integ.en.err = "errMultipleHashes"

\* C18 as stated: verification of an envelope whose payload type is not
\* the metadata media type fails with UnexpectedPayloadType, whatever the
\* state of its signatures, and does not return the payload.
C18_UnexpectedPayloadType ==
  (integ.phase = "verified"
     /\ integ.sm.e.PayloadType # metadataMediaType) =>
    /\ integ.vr.err = "errDSSEUnexpectedPayloadType"
    /\ integ.vr.message = ""

\* Verifier v of the decoder has a valid signature in envelope e: one made
\* by its key over the payload type and payload that e carries.
HasValidSignature(v, e) ==
  \E i \in 1..Len(e.Signatures) :
    /\ e.Signatures[i].ok
    /\ e.Signatures[i].by = v.key
    /\ e.Signatures[i].over = <<e.PayloadType, e.Payload>>

\* The verifiers of decoder de can be built and one of them has a valid
\* signature in e.
EnvelopeVerifies(de, e) ==
  /\ \A i \in 1..Len(de.vs) : de.vs[i].pubOK
  /\ \E i \in 1..Len(de.vs) : HasValidSignature(de.vs[i], e)

\* C18 amended: verification of an envelope whose payload type is not the
\* metadata media type always fails and does not return the payload; the
\* signatures are verified first, so the error is UnexpectedPayloadType
\* exactly when the envelope verifies under the type it carries, and
\* VerifyEnvelopeFailed when the verifiers are built and none of them has a
\* valid signature.
C18_WrongTypeFails ==
  (integ.phase = "verified"
     /\ integ.sm.e.PayloadType # metadataMediaType) =>
    /\ integ.vr.err # "nil"
    /\ integ.vr.message = ""
    /\ integ.vr.err = "errDSSEUnexpectedPayloadType"
         <=> EnvelopeVerifies(integ.de, integ.sm.e)
    /\ (/\ Len(integ.de.vs) > 0
        /\ \A i \in 1..Len(integ.de.vs) : integ.de.vs[i].pubOK
        /\ ~EnvelopeVerifies(integ.de, integ.sm.e)) =>
         integ.vr.err = "errDSSEVerifyEnvelopeFailed"

\* An envelope signed again under the type "bad" has been verified by a
\* decoder holding the signer's key and refused for its payload type.
C18_Witness ==
  /\ integ.phase = "verified"
  /\ integ.corrupter = "corruptPayloadType"
  /\ integ.sm.e.PayloadType = "bad"
  /\ Len(integ.vr.aks) > 0
  /\ integ.vr.err = "errDSSEUnexpectedPayloadType"
  /\ integ.vr.message = ""

\* The verifiers of decoder de that have a valid signature in envelope e.
ValidVerifiers(de, e) ==
  {i \in 1..Len(de.vs) : HasValidSignature(de.vs[i], e)}

\* The keys of a list of accepted keys.
KeySet(aks) == {aks[k] : k \in 1..Len(aks)}

\* C19 as stated: an envelope of the expected payload type is accepted
\* exactly when at least threshold verifiers of the decoder have a valid
\* signature in it, and the accepted keys are exactly the keys of those
\* verifiers; signatures by other keys are ignored.
C19_Threshold ==
  (integ.phase = "verified"
     /\ integ.sm.e.PayloadType = metadataMediaType) =>
    LET valid == ValidVerifiers(integ.de, integ.sm.e)
    IN  /\ integ.vr.err = "nil" <=> Cardinality(valid) >= integ.de.threshold
        /\ KeySet(integ.vr.aks) = {integ.de.vs[i].key : i \in valid}

\* C19 amended: when the public key of every verifier of the decoder can
\* be read, an envelope of the expected payload type is accepted exactly
\* when at least threshold (1) verifiers have a valid signature in it, the
\* accepted keys are exactly the keys of those verifiers, each once, and
\* an accepted envelope yields its payload; signatures by other keys are
\* ignored.  When the public key of a verifier cannot be read the
\* verification fails with that error and accepts no key.
C19_ThresholdOfBuiltVerifiers ==
  (integ.phase = "verified"
     /\ integ.sm.e.PayloadType = metadataMediaType) =>
    LET valid == ValidVerifiers(integ.de, integ.sm.e)
        built == \A i \in 1..Len(integ.de.vs) : integ.de.vs[i].pubOK
    IN  /\ integ.de.threshold = 1
        /\ integ.vr.err = "nil"
             <=> (built /\ Cardinality(valid) >= integ.de.threshold)
        /\ built =>
             /\ KeySet(integ.vr.aks) = {integ.de.vs[i].key : i \in valid}
             /\ Len(integ.vr.aks) = Cardinality(valid)
        /\ ~built =>
             integ.vr.err = "errPublicKey" /\ integ.vr.aks = <<>>
        /\ integ.vr.err = "nil" => integ.vr.message = integ.sm.e.Payload

\* An envelope signed with two keys has been accepted by a decoder that
\* holds one of them, and that key alone is returned.
C19_Witness ==
  /\ integ.phase = "verified"
  /\ integ.corrupter = "none"
  /\ Len(integ.sm.e.Signatures) = 2
  /\ integ.sm.e.Signatures[1].by # integ.sm.e.Signatures[2].by
  /\ Len(integ.de.vs) = 1
  /\ integ.vr.err = "nil"
  /\ integ.vr.aks = <<integ.de.vs[1].key>>
  /\ integ.vr.message = testMessage

(***************************************************************************)
(* Verifier (spec 4.7).  A Verifier holds its verify tasks, a keyring, a   *)
(* set of verifiers and a callback, each of the last three possibly        *)
(* absent.  A task is the mockVerifier of the tests: the signature         *)
(* descriptors it reports or the error of reporting them, and the verified *)
(* descriptors, the entity and the error it gives for a signature.  calls  *)
(* records what Verify has invoked, in order.                              *)
(***************************************************************************)
mockVerifier(sigs, sigsErr, verified, e, verifyErr) ==
  [sigs |-> sigs, sigsErr |-> sigsErr, verified |-> verified, e |-> e,
   verifyErr |-> verifyErr]

\* A Signature descriptor: its id and the fingerprint of its metadata.
SigDescr(id, fp) == [ID |-> id, fp |-> fp]

fp1 == "000102"

fp2 == "131211"

\* The tasks of the tests: no signature, signatures that cannot be
\* enumerated (no signature found, or a read error), one that does not
\* verify, and signatures by fp1, by fp2, by both, and two by fp2.
MockVerifiers ==
  {mockVerifier(<<>>, "nil", <<>>, "nil", "nil"),
   mockVerifier(<<>>, "SignatureNotFoundError", <<>>, "nil", "nil"),
   mockVerifier(<<>>, "EOF", <<>>, "nil", "nil"),
   mockVerifier(<<SigDescr(3, fp1)>>, "nil", <<>>, "nil",
                "SignatureNotValidError"),
   mockVerifier(<<SigDescr(2, fp1)>>, "nil", <<1>>, "e", "nil"),
   mockVerifier(<<SigDescr(3, fp2)>>, "nil", <<1>>, "e", "nil"),
   mockVerifier(<<SigDescr(3, fp2), SigDescr(2, fp1)>>, "nil", <<1>>, "e",
                "nil"),
   mockVerifier(<<SigDescr(3, fp2), SigDescr(4, fp2)>>, "nil", <<1>>, "e",
                "nil")}

\* No keyring, an empty keyring, a keyring with the test entity.
KeyRings == {"nil", "EntityList{}", "EntityList{e}"}

\* No callback, a callback that reports errors, one that ignores them.
Callbacks == {"nil", "false", "true"}

VerifierSets == {<<>>, <<TestVerifier("rsa", TRUE)>>}

\* signatures that reports no error.
signatures_NoError(t) == [sigs |-> t.sigs, err |-> "nil"]

\* signatures that reports the first signature only.
signatures_FirstOnly(t) ==
  [sigs |-> IF t.sigs = <<>> THEN <<>> ELSE <<t.sigs[1]>>, err |-> t.sigsErr]

\* mockVerifier.signatures.
signatures(t) == [sigs |-> t.sigs, err |-> t.sigsErr]

\* verifySignature that reports no error.
verifySignature_NoError(t, sig) ==
  [sig |-> sig, verified |-> t.verified, e |-> t.e, err |-> "nil"]

\* mockVerifier.verifySignature: the result of verifying sig.
verifySignature(t, sig) ==
  [sig |-> sig, verified |-> t.verified, e |-> t.e, err |-> t.verifyErr]

\* The signatures of task n of v from the i-th on: verify, give the result
\* to the callback, stop at the first error the callback does not suppress.
RECURSIVE VerifySignatures(_, _, _, _)
VerifySignatures(v, n, i, calls) ==
  LET t == v.tasks[n]
  IN  IF i > Len(t.sigs) THEN [err |-> "nil", calls |-> calls]
      ELSE LET vr == verifySignature(t, t.sigs[i])
               c1 == Append(calls, [op |-> "verifySignature", task |-> n,
                                    sig |-> t.sigs[i]])
               c2 == IF v.cb # "nil"
                     THEN Append(c1, [op |-> "cb", task |-> n,
                                      sig |-> vr.sig,
                                      verified |-> vr.verified,
                                      e |-> vr.e, err |-> vr.err])
                     ELSE c1
               err == IF v.cb = "true" THEN "nil" ELSE vr.err
           IN  IF err # "nil" THEN [err |-> err, calls |-> c2]
               ELSE VerifySignatures(v, n, i + 1, c2)

\* RunTasks with the error of enumerating a task's signatures returned at
\* once, without the callback.
RECURSIVE RunTasks_NoCallback(_, _, _)
RunTasks_NoCallback(v, i, calls) ==
  IF i > Len(v.tasks) THEN [err |-> "nil", calls |-> calls]
  ELSE LET t == v.tasks[i]
           c1 == Append(calls, [op |-> "signatures", task |-> i])
       IN  IF signatures(t).err # "nil"
           THEN [err |-> signatures(t).err, calls |-> c1]
           ELSE LET r == VerifySignatures(v, i, 1, c1)
                IN  IF r.err # "nil" THEN r
                    ELSE RunTasks_NoCallback(v, i + 1, r.calls)

\* The tasks of v from the i-th on, in order.  The error of enumerating a
\* task's signatures is a per-task error like that of a signature: it is
\* given to the callback, when one is set, as a result with no signature
\* descriptor, no verified descriptor and no entity, before it is returned,
\* and the callback may suppress it.
RECURSIVE RunTasks(_, _, _)
RunTasks(v, i, calls) ==
  IF i > Len(v.tasks) THEN [err |-> "nil", calls |-> calls]
  ELSE LET t == v.tasks[i]
           c1 == Append(calls, [op |-> "signatures", task |-> i])
           c2 == IF v.cb # "nil"
                 THEN Append(c1, [op |-> "cb", task |-> i,
                                  sig |-> SigDescr(0, ""),
                                  verified |-> <<>>, e |-> "nil",
                                  err |-> signatures(t).err])
                 ELSE c1
       IN  IF signatures(t).err # "nil"
           THEN IF v.cb = "true" THEN RunTasks(v, i + 1, c2)
                ELSE [err |-> signatures(t).err, calls |-> c2]
           ELSE LET r == VerifySignatures(v, i, 1, c1)
                IN  IF r.err # "nil" THEN r
                    ELSE RunTasks(v, i + 1, r.calls)

\* Verify without the test for key material.
Verify_NoPolicy(v) == RunTasks(v, 1, <<>>)

\* Verify: at least one of keyring, verifier set and callback must be
\* supplied, else NoKeyMaterial; then every task is run.
Verify(v) ==
  IF v.kr = "nil" /\ Len(v.svs) = 0 /\ v.cb = "nil"
  THEN [err |-> "ErrNoKeyMaterial", calls |-> <<>>]
  ELSE RunTasks(v, 1, <<>>)

VerifyStep(tasks, kr, svs, cb) ==
  /\ integ.phase = "idle"
  /\ LET v == [tasks |-> tasks, kr |-> kr, svs |-> svs, cb |-> cb]
     IN  integ' = [phase |-> "verify", v |-> v, r |-> Verify(v)]
  /\ UNCHANGED <<Header, DescrArr, Data, now, steps, last, issued, loaded,
                 added, readers>>

\* The fingerprints taking part in the tasks of v, as a set: those of at
\* least one task if any, else those of every task.  The error of the
\* first task that cannot enumerate its signatures ends it.
fingerprints(v, any) ==
  LET n == Len(v.tasks)
      failing == {i \in 1..n : signatures(v.tasks[i]).err # "nil"}
      fps(i) == {signatures(v.tasks[i]).sigs[k].fp :
                   k \in 1..Len(signatures(v.tasks[i]).sigs)}
  IN  IF failing # {}
      THEN [fps |-> {},
            err |-> signatures(
                      v.tasks[CHOOSE i \in failing :
                                \A j \in failing : i <= j]).err]
      ELSE [fps |-> {f \in {fp1, fp2} :
                      /\ \E i \in 1..n : f \in fps(i)
                      /\ any \/ \A i \in 1..n : f \in fps(i)},
            err |-> "nil"]

AnySignedBy(v) == fingerprints(v, TRUE)

AllSignedBy(v) == fingerprints(v, FALSE)

\* The lists that may be returned for the set S of fingerprints of the
\* tasks of v: each fingerprint of S once.  The specification gives the
\* fingerprints as a set (union, intersection) and no order of the list.
\* The lists that TestVerifier_AnySignedBy expects have fp1 before fp2, and
\* in each of its cases a signature by fp1 is met before any by fp2
\* (TwoTasksTwoFP, KitchenSink): the list is that one then.  No test has
\* fp2 met first, and either list may be returned then.
Orderings(v, S) ==
  LET signed == {i \in 1..Len(v.tasks) : signatures(v.tasks[i]).sigs # <<>>}
      first == signatures(v.tasks[CHOOSE i \in signed :
                                    \A j \in signed : i <= j]).sigs[1].fp
  IN  {s \in SeqUpTo(S, Cardinality(S)) :
         /\ Len(s) = Cardinality(S)
         /\ {s[k] : k \in 1..Len(s)} = S
         /\ (S = {fp1, fp2} /\ first = fp1) => s = <<fp1, fp2>>}

AnySignedByStep(tasks) ==
  /\ integ.phase = "idle"
  /\ LET v == [tasks |-> tasks, kr |-> "nil", svs |-> <<>>, cb |-> "nil"]
     IN  \E fps \in Orderings(v, AnySignedBy(v).fps) :
           integ' = [phase |-> "AnySignedBy", v |-> v,
                     r |-> [fps |-> fps, err |-> AnySignedBy(v).err]]
  /\ UNCHANGED <<Header, DescrArr, Data, now, steps, last, issued, loaded,
                 added, readers>>

AllSignedByStep(tasks) ==
  /\ integ.phase = "idle"
  /\ LET v == [tasks |-> tasks, kr |-> "nil", svs |-> <<>>, cb |-> "nil"]
     IN  \E fps \in Orderings(v, AllSignedBy(v).fps) :
           integ' = [phase |-> "AllSignedBy", v |-> v,
                     r |-> [fps |-> fps, err |-> AllSignedBy(v).err]]
  /\ UNCHANGED <<Header, DescrArr, Data, now, steps, last, issued, loaded,
                 added, readers>>

\* A group signature: its descriptor id and the ids of the objects its
\* signed message lists.
GroupSignature(covered) == [ID |-> 3, covered |-> covered]

\* A task that verifies the objects ods of a group.
groupVerifier(groupID, ods, subsetOK) ==
  [groupID |-> groupID, ods |-> ods, subsetOK |-> subsetOK]

\* verifySignature that never asks for the exact set of objects.
groupVerifier_verifySignature_Subset(v, sig, de, changed) ==
  IF de # "EntityList{e}"
  THEN {[err |-> "SignatureNotValidError", verified |-> {}, e |-> "nil"]}
  ELSE IF v.ods \subseteq sig.covered /\ sig.covered \cap changed = {}
  THEN {[err |-> "nil", verified |-> v.ods, e |-> "e"]}
  ELSE {[err |-> "SignatureNotValidError", verified |-> {}, e |-> "e"]}

\* groupVerifier.verifySignature, as the set of the outcomes that the
\* specification and TestGroupVerifier_verify admit; changed are the
\* objects whose payload is not the signed one.  A signature that the
\* keyring of de does not verify gives SignatureNotValid, nothing verified
\* and no entity (case UnknownIssuer).  Else the entity is the signer; the
\* signature must cover the objects requested, exactly unless a subset is
\* allowed, and every object its message lists must have the signed hash
\* (4.5).  When all of that holds the objects requested are verified.  When
\* the only failure is a signed object that is not requested, the error is
\* errSignedObjectNotFound and nothing is verified (case
\* SignedObjectNotFound).  When the only failure is a changed payload, the
\* error is SignatureNotValid (spec 8, scenario 4).  For every other
\* failure neither the specification nor the test gives the error, and
\* for none but the first the descriptors reported with it: the error is
\* either of the two kinds of failure, the descriptors any of the
\* requested ones that are covered and unchanged.
groupVerifier_verifySignature(v, sig, de, changed) ==
  LET C == sig.covered
      R == v.ods
      covers == R \subseteq C
      exact == v.subsetOK \/ C = R
      intact == C \cap changed = {}
  IN  IF de # "EntityList{e}"
      THEN {[err |-> "SignatureNotValidError", verified |-> {}, e |-> "nil"]}
      ELSE IF covers /\ exact /\ intact
      THEN {[err |-> "nil", verified |-> R, e |-> "e"]}
      ELSE IF covers /\ intact
      THEN {[err |-> "errSignedObjectNotFound", verified |-> {}, e |-> "e"]}
      ELSE IF covers /\ exact
      THEN {[err |-> "SignatureNotValidError", verified |-> w, e |-> "e"] :
              w \in SUBSET (R \ changed)}
      ELSE {[err |-> x, verified |-> w, e |-> "e"] :
              x \in {"errSignedObjectNotFound", "SignatureNotValidError"},
              w \in SUBSET ((R \cap C) \ changed)}

GroupVerifySignatureStep(ods, subsetOK, covered, de, changed) ==
  /\ integ.phase = "idle"
  /\ LET v == groupVerifier(1, ods, subsetOK)
         sig == GroupSignature(covered)
     IN  \E vr \in groupVerifier_verifySignature(v, sig, de, changed) :
           integ' = [phase |-> "verifySignature", v |-> v, sig |-> sig,
                     de |-> de, changed |-> changed, vr |-> vr]
  /\ UNCHANGED <<Header, DescrArr, Data, now, steps, last, issued, loaded,
                 added, readers>>

\* The objects of group 1 of the signed image of the tests are 1 and 2.
NextVerify ==
  \/ \E ods \in SUBSET {1, 2} \ {{}} :
       \E covered \in SUBSET {1, 2} \ {{}} :
         \E subsetOK \in BOOLEAN : \E de \in KeyRings \ {"nil"} :
           \E changed \in SUBSET {1, 2} :
             GroupVerifySignatureStep(ods, subsetOK, covered, de, changed)
  \/ \E tasks \in SeqUpTo(MockVerifiers, MaxTasks) :
       \E kr \in KeyRings : \E svs \in VerifierSets : \E cb \in Callbacks :
         VerifyStep(tasks, kr, svs, cb)
  \/ \E tasks \in SeqUpTo(MockVerifiers, MaxTasks) : AnySignedByStep(tasks)
  \/ \E tasks \in SeqUpTo(MockVerifiers, MaxTasks) : AllSignedByStep(tasks)

SpecVerify == Init /\ [][NextVerify]_vars

\* C20: Verify fails with NoKeyMaterial, having invoked no task and no
\* callback, whenever none of a keyring, a verifier set and a callback is
\* supplied, and does not return NoKeyMaterial when one of them is.
C20_NoKeyMaterial ==
  integ.phase = "verify" =>
    LET none == /\ integ.v.kr = "nil"
                /\ integ.v.svs = <<>>
                /\ integ.v.cb = "nil"
    IN  /\ none => integ.r.err = "ErrNoKeyMaterial" /\ integ.r.calls = <<>>
        /\ ~none => integ.r.err # "ErrNoKeyMaterial"

\* A Verifier with a task that has a signature to verify, and no keyring,
\* verifier or callback, has been refused with NoKeyMaterial.
C20_Witness ==
  /\ integ.phase = "verify"
  /\ integ.v.kr = "nil" /\ integ.v.svs = <<>> /\ integ.v.cb = "nil"
  /\ Len(integ.v.tasks) > 0
  /\ integ.v.tasks[1].sigs # <<>>
  /\ integ.r.err = "ErrNoKeyMaterial"
  /\ integ.r.calls = <<>>

\* The error that task n of v ends with when it is run: the error of
\* enumerating its signatures, or that of verifying one, unless the
\* callback suppresses it.
TaskError(v, n) ==
  LET t == v.tasks[n]
  IN  IF v.cb = "true" THEN "nil"
      ELSE IF t.sigsErr # "nil" THEN t.sigsErr
      ELSE IF t.sigs # <<>> THEN t.verifyErr
      ELSE "nil"

\* Verify has run with key material supplied.
VerifyRan ==
  /\ integ.phase = "verify"
  /\ integ.r.err # "ErrNoKeyMaterial"

\* The tasks Verify has invoked.
TasksRun == {integ.r.calls[k].task : k \in 1..Len(integ.r.calls)}

\* Success exactly when every task error was nil or suppressed, and
\* otherwise the error of the first task that has one; the tasks are run in
\* order up to that one.
VerifyOutcome ==
  LET v == integ.v
      failing == {n \in 1..Len(v.tasks) : TaskError(v, n) # "nil"}
  IN  /\ integ.r.err = "nil" <=> failing = {}
      /\ failing = {} => TasksRun = 1..Len(v.tasks)
      /\ failing # {} =>
           LET first == CHOOSE n \in failing : \A m \in failing : n <= m
           IN  /\ integ.r.err = TaskError(v, first)
               /\ TasksRun = 1..first

\* Each task result is given to the callback, when one is set, right after
\* it is produced: a verified signature with its descriptor, the verified
\* descriptors, the entity and the error; a failure to enumerate the
\* signatures of a task with that error alone.  Nothing else is given to
\* the callback.
CallbackPerResult ==
  LET v == integ.v
      calls == integ.r.calls
  IN  /\ \A k \in 1..Len(calls) :
           (calls[k].op = "verifySignature" /\ v.cb # "nil") =>
             /\ k < Len(calls)
             /\ calls[k + 1] =
                  [op |-> "cb", task |-> calls[k].task, sig |-> calls[k].sig,
                   verified |-> v.tasks[calls[k].task].verified,
                   e |-> v.tasks[calls[k].task].e,
                   err |-> v.tasks[calls[k].task].verifyErr]
      /\ \A k \in 1..Len(calls) :
           (/\ calls[k].op = "signatures"
            /\ v.tasks[calls[k].task].sigsErr # "nil"
            /\ v.cb # "nil") =>
             /\ k < Len(calls)
             /\ calls[k + 1].op = "cb"
             /\ calls[k + 1].task = calls[k].task
             /\ calls[k + 1].verified = <<>>
             /\ calls[k + 1].e = "nil"
             /\ calls[k + 1].err = v.tasks[calls[k].task].sigsErr
      /\ \A k \in 1..Len(calls) :
           calls[k].op = "cb" =>
             /\ v.cb # "nil"
             /\ k > 1
             /\ \/ calls[k - 1].op = "verifySignature"
                \/ /\ calls[k - 1].op = "signatures"
                   /\ v.tasks[calls[k - 1].task].sigsErr # "nil"

\* C21: Verify runs the tasks in order; the callback, when set, is invoked
\* with each task result before any error is returned; an error it returns
\* true for is suppressed and verification continues; Verify succeeds
\* exactly when every task error was nil or suppressed and otherwise
\* returns the first unsuppressed task error.
C21_CallbackBeforeAnyError ==
  VerifyRan =>
    /\ CallbackPerResult
    /\ VerifyOutcome
    /\ (integ.v.cb # "nil" /\ integ.r.err # "nil") =>
         LET c == integ.r.calls[Len(integ.r.calls)]
         IN  c.op = "cb" /\ c.err = integ.r.err

\* Verify with a callback that suppresses errors has given it the error of
\* a task that cannot enumerate its signatures and that of a signature
\* that does not verify, has run every task and has succeeded.
C21_Witness ==
  /\ VerifyRan
  /\ integ.v.cb = "true"
  /\ Len(integ.v.tasks) = 2
  /\ integ.v.tasks[1].sigsErr = "SignatureNotFoundError"
  /\ integ.v.tasks[2].sigs # <<>>
  /\ integ.v.tasks[2].verifyErr = "SignatureNotValidError"
  /\ integ.r.err = "nil"
  /\ \E k \in 1..Len(integ.r.calls) :
       /\ integ.r.calls[k].op = "cb"
       /\ integ.r.calls[k].task = 1
       /\ integ.r.calls[k].err = "SignatureNotFoundError"
  /\ integ.r.calls[Len(integ.r.calls)].op = "cb"
  /\ integ.r.calls[Len(integ.r.calls)].task = 2
  /\ integ.r.calls[Len(integ.r.calls)].err = "SignatureNotValidError"

\* The fingerprints of the signatures of the tasks, task by task and
\* signature by signature.
RECURSIVE SignatureFps(_, _)
SignatureFps(tasks, n) ==
  IF n > Len(tasks) THEN <<>>
  ELSE [i \in 1..Len(tasks[n].sigs) |-> tasks[n].sigs[i].fp]
         \o SignatureFps(tasks, n + 1)

\* List s without the repetitions of its elements.
RECURSIVE FirstAppearances(_, _)
FirstAppearances(s, seen) ==
  IF s = <<>> THEN <<>>
  ELSE IF Head(s) \in seen THEN FirstAppearances(Tail(s), seen)
  ELSE <<Head(s)>> \o FirstAppearances(Tail(s), seen \cup {Head(s)})

\* The tasks that cannot enumerate their signatures.
FailingTasks(v) == {n \in 1..Len(v.tasks) : v.tasks[n].sigsErr # "nil"}

\* The call fails with the error of the first task that cannot enumerate
\* its signatures, and returns no fingerprint then.
EnumerationError ==
  LET failing == FailingTasks(integ.v)
  IN  /\ integ.r.err = "nil" <=> failing = {}
      /\ failing # {} =>
           /\ integ.r.fps = <<>>
           /\ integ.r.err =
                integ.v.tasks[CHOOSE n \in failing :
                                \A m \in failing : n <= m].sigsErr

FpsOfTask(v, n) == {v.tasks[n].sigs[i].fp : i \in 1..Len(v.tasks[n].sigs)}

\* C23: AllSignedBy returns exactly the fingerprints found among the
\* signatures of every task, so none when a task has no signature; it fails
\* with the task's error when a task cannot enumerate its signatures; and
\* what it returns is among what AnySignedBy returns for the same tasks.
C23_AllIntersection ==
  integ.phase = "AllSignedBy" =>
    /\ EnumerationError
    /\ integ.r.err = "nil" =>
         LET v == integ.v
             fps == integ.r.fps
         IN  /\ KeySet(fps) =
                  {f \in {fp1, fp2} :
                     /\ Len(v.tasks) > 0
                     /\ \A n \in 1..Len(v.tasks) : f \in FpsOfTask(v, n)}
             /\ Len(fps) = Cardinality(KeySet(fps))
             /\ (\E n \in 1..Len(v.tasks) : v.tasks[n].sigs = <<>>) =>
                  fps = <<>>
             /\ KeySet(fps) \subseteq AnySignedBy(v).fps

\* AllSignedBy of a task signed by fp2 and fp1 and a task signed by fp2
\* twice has returned fp2 alone, where AnySignedBy returns both.
C23_Witness ==
  /\ integ.phase = "AllSignedBy"
  /\ Len(integ.v.tasks) = 2
  /\ FpsOfTask(integ.v, 1) = {fp1, fp2}
  /\ Len(integ.v.tasks[2].sigs) = 2
  /\ FpsOfTask(integ.v, 2) = {fp2}
  /\ integ.r.err = "nil"
  /\ integ.r.fps = <<fp2>>
  /\ AnySignedBy(integ.v).fps = {fp1, fp2}

\* The signature is one the keyring verifies and no object of the image
\* has changed since it was signed.
ValidUnchanged == integ.de = "EntityList{e}" /\ integ.changed = {}

DataObject(id, g) ==
  [ZeroDescr EXCEPT !.Used = TRUE, !.Datatype = "DataGeneric", !.ID = id,
                    !.Groupid = g]

SignatureObject(id, link) ==
  [ZeroDescr EXCEPT !.Used = TRUE, !.Datatype = "DataSignature", !.ID = id,
                    !.Link = link]

\* The descriptor tables of at most MaxDescr objects with ids 1, 2, ...:
\* data objects first, signatures after them.
VerifyImages ==
  {f \in SeqUpTo({DataObject(id, g) : id \in 1..MaxDescr, g \in 1..2}
                   \cup {SignatureObject(id, l) :
                           id \in 1..MaxDescr,
                           l \in {GroupLink(1), GroupLink(2), ObjLink(1)}},
                 MaxDescr) :
     /\ \A i \in 1..Len(f) : f[i].ID = i
     /\ \A i \in 1..Len(f) : \A j \in 1..Len(f) :
          (i < j /\ f[i].Datatype = "DataSignature")
            => f[j].Datatype = "DataSignature"}

OptVerifyGroup(g) == [opt |-> "OptVerifyGroup", n |-> g]

OptVerifyObject(id) == [opt |-> "OptVerifyObject", n |-> id]

OptVerifyLegacyAll == [opt |-> "OptVerifyLegacyAll", n |-> 0]

\* The numbers of the options of kind k in opts, each once, in the order
\* they are first given.
RECURSIVE Requested(_, _, _)
Requested(opts, k, seen) ==
  IF opts = <<>> THEN <<>>
  ELSE IF Head(opts).opt = k /\ Head(opts).n \notin seen
  THEN <<Head(opts).n>>
         \o Requested(Tail(opts), k, seen \cup {Head(opts).n})
  ELSE Requested(Tail(opts), k, seen)

\* The ids of list s found in set S, in ascending order.
RECURSIVE Ascending(_, _)
Ascending(S, n) ==
  IF S = {} THEN <<>>
  ELSE IF n \in S THEN <<n>> \o Ascending(S \ {n}, n + 1)
  ELSE Ascending(S, n + 1)

\* The ids of the data objects of group g of f.
GroupObjectIDs(f, g) ==
  {f[i].ID : i \in {j \in 1..Len(f) : f[j].Used /\ f[j].Groupid = g}}

\* The group ids of f.
GroupIDs(f) ==
  {f[i].Groupid : i \in {j \in 1..Len(f) : f[j].Used /\ f[j].Groupid # 0}}

\* The ids of the data objects of f.
DataObjectIDs(f) ==
  {f[i].ID : i \in {j \in 1..Len(f) :
                      f[j].Used /\ f[j].Datatype # "DataSignature"}}

\* A task that verifies the legacy signature of object id.
legacyObjectVerifier(id) == [kind |-> "legacyObject", id |-> id]

GroupTask(f, g) ==
  [kind |-> "group", v |-> groupVerifier(g, GroupObjectIDs(f, g), FALSE)]

\* The task for one object of a group: the object alone, a subset allowed.
ObjectTask(f, id) ==
  [kind |-> "group", id |-> id,
   v |-> groupVerifier(f[CHOOSE i \in 1..Len(f) : f[i].ID = id].Groupid,
                       {id}, TRUE)]

\* The first error of building the tasks of the groups gs and objects os
\* of f: a group or an object that f does not hold.
TargetError(f, gs, os) ==
  IF \E i \in 1..Len(gs) : gs[i] = 0 THEN "ErrInvalidGroupID"
  ELSE IF \E i \in 1..Len(os) : os[i] = 0 THEN "ErrInvalidObjectID"
  ELSE IF (gs # <<>> \/ os # <<>>) /\ Len(f) = 0 THEN "ErrNoObjects"
  ELSE IF \E i \in 1..Len(gs) : GroupObjectIDs(f, gs[i]) = {}
  THEN "errGroupNotFound"
  ELSE IF \E i \in 1..Len(os) : os[i] \notin DataObjectIDs(f)
  THEN "ErrObjectNotFound"
  ELSE "nil"

\* NewVerifier: one task per requested group and per requested object;
\* by default one per group of the container; with OptVerifyLegacyAll one
\* per data object.
NewVerifier(f, opts) ==
  LET gs == Requested(opts, "OptVerifyGroup", {})
      os == Requested(opts, "OptVerifyObject", {})
      all == \E i \in 1..Len(opts) : opts[i] = OptVerifyLegacyAll
      err == TargetError(f, gs, os)
  IN  IF err # "nil" THEN [err |-> err, tasks |-> <<>>]
      ELSE IF gs # <<>> \/ os # <<>>
      THEN [err |-> "nil",
            tasks |-> [i \in 1..Len(gs) |-> GroupTask(f, gs[i])]
                        \o [i \in 1..Len(os) |-> ObjectTask(f, os[i])]]
      ELSE IF all
      THEN LET ids == Ascending(DataObjectIDs(f), 1)
           IN  IF ids = <<>> THEN [err |-> "ErrNoObjects", tasks |-> <<>>]
               ELSE [err |-> "nil",
                     tasks |-> [i \in 1..Len(ids) |->
                                  legacyObjectVerifier(ids[i])]]
      ELSE LET ids == Ascending(GroupIDs(f), 1)
           IN  IF ids = <<>> THEN [err |-> "errNoGroupsFound", tasks |-> <<>>]
               ELSE [err |-> "nil",
                     tasks |-> [i \in 1..Len(ids) |-> GroupTask(f, ids[i])]]

\* The signatures of a task of f: the Signature descriptors linked to its
\* group or, for a legacy object task, to its object.
task_signatures(f, t) ==
  LET link == IF t.kind = "group" THEN GroupLink(t.v.groupID)
              ELSE ObjLink(t.id)
      r == GetFromLinkedDescr(f, link)
      sigs == {i \in r.indexes : f[i].Datatype = "DataSignature"}
  IN  IF r.err # "nil" \/ sigs = {}
      THEN [sigs |-> {}, err |-> "SignatureNotFoundError"]
      ELSE [sigs |-> sigs, err |-> "nil"]

\* The lists of options: groups and objects, or OptVerifyLegacyAll alone.
VerifierOpts ==
  SeqUpTo({OptVerifyGroup(1), OptVerifyGroup(2),
           OptVerifyObject(1), OptVerifyObject(2)}, MaxTasks)
    \cup {<<OptVerifyLegacyAll>>}

NewVerifierStep(f, opts) ==
  /\ integ.phase = "idle"
  /\ LET r == NewVerifier(f, opts)
     IN  integ' = [phase |-> "NewVerifier", f |-> f, opts |-> opts, r |-> r,
                   sigs |-> [i \in 1..Len(r.tasks) |->
                               task_signatures(f, r.tasks[i])]]
  /\ UNCHANGED <<Header, DescrArr, Data, now, steps, last, issued, loaded,
                 added, readers>>

NextNewVerifier ==
  \E f \in VerifyImages : \E opts \in VerifierOpts : NewVerifierStep(f, opts)

SpecNewVerifier == Init /\ [][NextNewVerifier]_vars

\* The numbers given with the options of kind k.
OptionNumbers(opts, k) ==
  {opts[i].n : i \in {j \in 1..Len(opts) : opts[j].opt = k}}

\* What the tasks are for: groups, single objects of a group, and objects
\* in the legacy scheme.
TaskGroups(tasks) ==
  {tasks[i].v.groupID :
     i \in {j \in 1..Len(tasks) :
              tasks[j].kind = "group" /\ ~tasks[j].v.subsetOK}}

TaskObjects(tasks) ==
  {tasks[i].id :
     i \in {j \in 1..Len(tasks) :
              tasks[j].kind = "legacyObject"
                \/ (tasks[j].kind = "group" /\ tasks[j].v.subsetOK)}}

\* The Signature descriptors of f linked to what task t is for.
LinkedSignatures(f, t) ==
  {i \in 1..Len(f) :
     /\ f[i].Datatype = "DataSignature"
     /\ f[i].Link = IF t.kind = "group" THEN GroupLink(t.v.groupID)
                    ELSE ObjLink(t.id)}

\* C25: NewVerifier builds one task per distinct group id and one per
\* distinct object id requested; without such options one task per group
\* of the container, and with OptVerifyLegacyAll one per data object; a
\* task whose group or object has no linked Signature descriptor reports
\* SignatureNotFound when its signatures are enumerated.
C25_TaskPlan ==
  (integ.phase = "NewVerifier" /\ integ.r.err = "nil") =>
    LET f == integ.f
        tasks == integ.r.tasks
        G == OptionNumbers(integ.opts, "OptVerifyGroup")
        O == OptionNumbers(integ.opts, "OptVerifyObject")
        groups == IF G \cup O # {} THEN G
                  ELSE IF integ.opts = <<>> THEN GroupIDs(f) ELSE {}
        objects == IF G \cup O # {} THEN O
                   ELSE IF integ.opts = <<>> THEN {} ELSE DataObjectIDs(f)
    IN  /\ Len(tasks) = Cardinality(groups) + Cardinality(objects)
        /\ TaskGroups(tasks) = groups
        /\ TaskObjects(tasks) = objects
        /\ \A i \in 1..Len(tasks) :
             IF LinkedSignatures(f, tasks[i]) = {}
             THEN integ.sigs[i].err = "SignatureNotFoundError"
             ELSE /\ integ.sigs[i].err = "nil"
                  /\ integ.sigs[i].sigs = LinkedSignatures(f, tasks[i])

\* Group 2 requested twice on a container with groups 1 and 2 and a
\* signature of group 1 only: one task, which finds no signature.
C25_Witness ==
  /\ integ.phase = "NewVerifier"
  /\ integ.opts = <<OptVerifyGroup(2), OptVerifyGroup(2)>>
  /\ GroupIDs(integ.f) = {1, 2}
  /\ \E i \in 1..Len(integ.f) : integ.f[i].Link = GroupLink(1)
  /\ integ.r.err = "nil"
  /\ Len(integ.r.tasks) = 1
  /\ integ.sigs[1].err = "SignatureNotFoundError"

(***************************************************************************)
(* Object readers.  GetReader gives a section reader over the file of the  *)
(* handle: the reader keeps its own position and reads the file with       *)
(* positioned reads only.                                                  *)
(***************************************************************************)
\* A positioned read of n bytes at the absolute offset off of the file: the
\* bytes the file holds there, and EOF when the file ends before n bytes.
ReadAt(h, data, off, n) ==
  LET rel == off - h.data_area_off
      avail == IF rel >= Len(data) THEN 0 ELSE Len(data) - rel
      m == IF n < avail THEN n ELSE avail
  IN  [b |-> [k \in 1..m |-> data[rel + k]],
       err |-> IF m < n THEN "EOF" ELSE "nil"]

\* GetReader with the stored length of the object as length of the section.
GetReader_Storelen(v) ==
  [base |-> v.Fileoff, off |-> v.Fileoff, limit |-> v.Fileoff + v.Storelen]

\* GetReader: a section reader over [Fileoff, Fileoff + Filelen).
GetReader(v) ==
  [base |-> v.Fileoff, off |-> v.Fileoff, limit |-> v.Fileoff + v.Filelen]

\* Read of the section reader s into a buffer of n bytes: EOF at the limit,
\* else a positioned read of at most the rest of the section, and the
\* position advances by the bytes read.
SectionRead(s, h, data, n) ==
  IF s.off >= s.limit
  THEN [s |-> s, b |-> <<>>, err |-> "EOF"]
  ELSE LET rest == s.limit - s.off
           r == ReadAt(h, data, s.off, IF n < rest THEN n ELSE rest)
       IN  [s |-> [s EXCEPT !.off = @ + Len(r.b)], b |-> r.b, err |-> r.err]

\* A reader is obtained for the descriptor of a used slot.
GetReaderStep(slot) ==
  /\ Len(readers) < MaxReaders
  /\ slot \in UsedSlots(DescrArr)
  /\ readers' = Append(readers,
                       [s |-> GetReader(DescrArr[slot]), slot |-> slot,
                        got |-> <<>>, err |-> "nil"])
  /\ last' = [op |-> "GetReader", err |-> "nil", id |-> DescrArr[slot].ID,
              k |-> Len(readers) + 1]
  /\ UNCHANGED <<Header, DescrArr, Data, now, steps, issued, loaded, added,
                 integ>>

\* One Read on the reader k, until the reader has reported an error.
ReadStep(k, n) ==
  /\ k \in 1..Len(readers)
  /\ readers[k].err = "nil"
  /\ LET r == SectionRead(readers[k].s, Header, Data, n)
     IN  /\ readers' = [readers EXCEPT ![k].s = r.s,
                                       ![k].got = @ \o r.b,
                                       ![k].err = r.err]
         /\ last' = [op |-> "Read", err |-> r.err, id |-> 0, k |-> k]
  /\ UNCHANGED <<Header, DescrArr, Data, now, steps, issued, loaded, added,
                 integ>>

\* A container of generic objects is built, then readers are obtained and
\* read in any order; nothing changes the container once a reader exists.
NextReaders ==
  \/ \E di \in {x \in Inputs : x.Datatype = "DataGeneric"} :
       /\ readers = <<>>
       /\ Cardinality(UsedSlots(DescrArr)) < MaxReadObjects
       /\ AddObjectStep(di, Det)
  \/ \E slot \in 1..MaxDescr : GetReaderStep(slot)
  \/ \E k \in 1..MaxReaders, n \in 1..MaxRead : ReadStep(k, n)

SpecReaders == Init /\ [][NextReaders]_vars

\* The bytes [Fileoff, Fileoff + Filelen) of the descriptor v in the file.
ObjectBytes(v) ==
  [k \in 1..v.Filelen |-> Data[v.Fileoff - Header.data_area_off + k]]

\* The reader r has delivered the first bytes of its object, in order, up
\* to its position, and reports EOF only behind the last of them.
ReaderDelivers(r, arr) ==
  LET pos == r.s.off - r.s.base
  IN  /\ pos \in 0..arr[r.slot].Filelen
      /\ r.got = SubSeq(ObjectBytes(arr[r.slot]), 1, pos)
      /\ r.err = "EOF" => pos = arr[r.slot].Filelen

\* C26: readers of one handle read in any interleaving, with no mutation
\* under way, each deliver the bytes [Fileoff, Fileoff + Filelen) of their
\* own descriptor in order, and a step on one reader leaves the position
\* and the delivered bytes of every other reader as they were.
C26_IndependentReaders ==
  [][/\ \A k \in 1..Len(readers') :
          ReaderDelivers(readers'[k], DescrArr')
     /\ \A k \in 1..Len(readers) :
          \/ readers'[k] = readers[k]
          \/ \A j \in (1..Len(readers)) \ {k} : readers'[j] = readers[j]]_vars

\* Two readers of the same two-byte object stand at different positions
\* after interleaved reads, and a read has just returned.
C26_Witness ==
  /\ Len(readers) = 2
  /\ readers[1].slot = readers[2].slot
  /\ readers[1].got = <<250>>
  /\ readers[2].got = <<250, 206>>
  /\ readers[2].err = "EOF"
  /\ last.op = "Read"
  /\ last.k = 1

(***************************************************************************)
(* Holes and compaction (C27).                                             *)
(***************************************************************************)
\* The call that led to this state, when it succeeded.
Did(l, op) == l.op = op /\ l.err = "nil"

\* The descriptor with the given id in the table arr.
DescrOf(arr, id) == arr[GetFromDescrID(arr, id).index]

\* The stored region of v ends where the data area ends.
AtDataAreaEnd(v) ==
  v.Fileoff + v.Storelen = Header.data_area_off + Header.data_area_used

\* A successful DeleteObject without Compact, or of an object that is not
\* at the end of the data area, keeps data_area_used and the file length;
\* with Compact on the object at the end, the data area and the file end
\* where the deleted object started.
DeleteKeepsOrTruncates ==
  Did(last', "DeleteObject") =>
    LET v == DescrOf(DescrArr, last'.id)
    IN  IF last'.compact /\ AtDataAreaEnd(v)
        THEN /\ Header'.data_area_off + Header'.data_area_used = v.Fileoff
             /\ FileLen(Header', Data') = v.Fileoff
             /\ Data' = SubSeq(Data, 1, v.Fileoff - Header.data_area_off)
        ELSE /\ Header'.data_area_used = Header.data_area_used
             /\ FileLen(Header', Data') = FileLen(Header, Data)

\* A successful AddObject that follows a successful DeleteObject places
\* its payload at data_area_off + data_area_used, behind every byte the
\* data area held after the delete.
AddAppendsAfterDelete ==
  Did(last, "DeleteObject") /\ Did(last', "AddObject") =>
    LET w == DescrOf(DescrArr', last'.id)
        di == added'[Len(added')]
    IN  /\ w.Fileoff = Header.data_area_off + Header.data_area_used
        /\ Data' = SubSeq(Data, 1, Header.data_area_used)
                     \o di.payload \o Zeros(di.pad)
        /\ Header'.data_area_used = Header.data_area_used + w.Storelen

\* C27: DeleteObject without Compact, or with Compact on an object that is
\* not at the end of the data area, leaves data_area_used and the file
\* length unchanged, and the following AddObject places its payload at
\* data_area_off + data_area_used, after the hole; with Compact on the
\* trailing object the data area ends where the deleted object started, so
\* the following AddObject starts there and the bytes of the deleted object
\* are gone.
C27_HolesAndCompaction ==
  [][DeleteKeepsOrTruncates /\ AddAppendsAfterDelete]_vars

\* Two objects of two bytes were added, one was deleted with Compact at the
\* end of the data area, and a third was added: two objects are used and
\* the data area holds their four bytes only.
C27_Witness ==
  /\ Did(last, "AddObject")
  /\ Len(added) = 3
  /\ \A k \in 1..3 : Len(added[k].payload) = 2 /\ added[k].pad = 0
  /\ Cardinality(UsedSlots(DescrArr)) = 2
  /\ Header.data_area_used = 4
  /\ Len(Data) = 4

(***************************************************************************)
(* Stored regions and payload bytes (C28).                                 *)
(***************************************************************************)
\* The offsets of the stored region [Fileoff, Fileoff + Storelen) of v.
StoredRegion(v) == v.Fileoff..(v.Fileoff + v.Storelen - 1)

\* No byte of the file belongs to the stored regions of two used descriptors.
RegionsDisjoint(arr) ==
  \A i, j \in UsedSlots(arr) :
    i # j => StoredRegion(arr[i]) \cap StoredRegion(arr[j]) = {}

\* An object that is used before and after the step has the place and the
\* bytes it had.
SurvivorsKeepBytes ==
  \A i \in UsedSlots(DescrArr) \cap UsedSlots(DescrArr') :
    /\ DescrArr'[i].ID = DescrArr[i].ID
    /\ DescrArr'[i].Fileoff = DescrArr[i].Fileoff
    /\ DescrArr'[i].Filelen = DescrArr[i].Filelen
    /\ DescrArr'[i].Storelen = DescrArr[i].Storelen
    /\ GetData(DescrArr'[i], Header', Data') = GetData(DescrArr[i], Header, Data)

\* An object that was just added reads back as the payload it was given.
AddedReadsBack ==
  Did(last', "AddObject") =>
    GetData(DescrOf(DescrArr', last'.id), Header', Data') =
      [b |-> added'[Len(added')].payload, err |-> "nil"]

\* C28: after any sequence of AddObject and DeleteObject calls with any
\* Zero/Compact options, the stored regions of two distinct used descriptors
\* are disjoint, and the payload bytes of a used object never change after
\* they were written: no call alters the bytes read back from an object
\* that survives it.
C28_DisjointImmutable ==
  [][/\ RegionsDisjoint(DescrArr')
     /\ SurvivorsKeepBytes
     /\ AddedReadsBack]_vars

\* An object was deleted with Zero and Compact in front of a surviving
\* object: its bytes are zero, the survivor behind the hole reads back its
\* own bytes.
C28_Witness ==
  /\ Did(last, "DeleteObject")
  /\ last.zero
  /\ last.compact
  /\ Len(Data) = 4
  /\ SubSeq(Data, 1, 2) = <<0, 0>>
  /\ \E i \in UsedSlots(DescrArr) :
       /\ DescrArr[i].Fileoff = Header.data_area_off + 2
       /\ GetData(DescrArr[i], Header, Data) =
            [b |-> <<250, 206>>, err |-> "nil"]

(***************************************************************************)
(* Outcomes of verifyMessage (C29).                                        *)
(***************************************************************************)
\* The decoder has a verifier and the public key of each can be read.
VerifiersBuilt(de) ==
  /\ Len(de.vs) > 0
  /\ \A i \in 1..Len(de.vs) : de.vs[i].pubOK

\* The valid signatures of the decoder's verifiers reach the threshold.
ThresholdMet(de, e) == Cardinality(ValidVerifiers(de, e)) >= de.threshold

\* C29 as stated: the message is returned only with no error; an envelope
\* whose signatures do not meet the threshold yields VerifyEnvelopeFailed
\* with no accepted key, and one with valid signatures and an unexpected
\* payload type yields UnexpectedPayloadType with the accepted keys
\* recorded.
C29_Outcomes ==
  integ.phase = "verified" =>
    /\ integ.vr.message # "" => integ.vr.err = "nil"
    /\ ~ThresholdMet(integ.de, integ.sm.e) =>
         /\ integ.vr.err = "errDSSEVerifyEnvelopeFailed"
         /\ integ.vr.aks = <<>>
    /\ (/\ ThresholdMet(integ.de, integ.sm.e)
        /\ integ.sm.e.PayloadType # integ.de.payloadType) =>
         /\ integ.vr.err = "errDSSEUnexpectedPayloadType"
         /\ integ.vr.aks # <<>>

\* C29 amended: the message is returned only with no error.  When the
\* decoder has a verifier and every public key can be read, an envelope
\* whose signatures do not meet the threshold yields VerifyEnvelopeFailed
\* with no accepted key, and one with valid signatures and an unexpected
\* payload type yields UnexpectedPayloadType with the keys of the valid
\* verifiers recorded.  Otherwise the error of building the verifiers is
\* returned, with no message and no accepted key, whatever the envelope.
C29_OutcomesOfBuiltVerifiers ==
  integ.phase = "verified" =>
    /\ integ.vr.message # "" => integ.vr.err = "nil"
    /\ VerifiersBuilt(integ.de) =>
         /\ ~ThresholdMet(integ.de, integ.sm.e) =>
              /\ integ.vr.err = "errDSSEVerifyEnvelopeFailed"
              /\ integ.vr.aks = <<>>
         /\ (/\ ThresholdMet(integ.de, integ.sm.e)
             /\ integ.sm.e.PayloadType # integ.de.payloadType) =>
              /\ integ.vr.err = "errDSSEUnexpectedPayloadType"
              /\ KeySet(integ.vr.aks) =
                   {integ.de.vs[i].key :
                      i \in ValidVerifiers(integ.de, integ.sm.e)}
    /\ ~VerifiersBuilt(integ.de) =>
         /\ integ.vr.err \in {"errPublicKey", "errThreshold"}
         /\ integ.vr.message = ""
         /\ integ.vr.aks = <<>>

\* An envelope whose signatures were corrupted has been refused by a
\* decoder holding the key of its signer: VerifyEnvelopeFailed, no key.
C29_Witness ==
  /\ integ.phase = "verified"
  /\ integ.corrupter = "corruptSignatures"
  /\ integ.sm.e.PayloadType = metadataMediaType
  /\ VerifiersBuilt(integ.de)
  /\ \E i \in 1..Len(integ.de.vs) :
       integ.de.vs[i].key = integ.sm.e.Signatures[1].by
  /\ integ.vr.err = "errDSSEVerifyEnvelopeFailed"
  /\ integ.vr.aks = <<>>
  /\ integ.vr.message = ""

(***************************************************************************)
(* The OCI image source.  A source holds the descriptors of the container  *)
(* it was opened on, its open file and the manifest it has cached.  The    *)
(* reference names a path: DeleteImage removes the file at the path, a     *)
(* destination of the reference creates the file at the path anew (the     *)
(* file the source has open, while that is still at the path) and writes   *)
(* to it.  Close unloads the container of the source or the destination.   *)
(***************************************************************************)
MediaTypeImageIndex == "application/vnd.oci.image.index.v1+json"

MediaTypeImageManifest == "application/vnd.oci.image.manifest.v1+json"

\* A byte slice is nil or holds bytes (possibly none).
NilBytes == [nil |-> TRUE, b |-> <<>>]

Bytes(b) == [nil |-> FALSE, b |-> b]

\* The digest of a byte string; no digest is given for the primary manifest.
NoDigest == [nil |-> TRUE, of |-> <<>>]

Digest(b) == [nil |-> FALSE, of |-> b]

\* An index, an empty index, a manifest and a layer without MIME type.
ImageObjects ==
  {[MimeType |-> MediaTypeImageIndex, payload |-> <<105>>],
   [MimeType |-> MediaTypeImageIndex, payload |-> <<>>],
   [MimeType |-> MediaTypeImageManifest, payload |-> <<109>>],
   [MimeType |-> "", payload |-> <<98>>]}

RECURSIVE ImageData(_, _)
\* The data area of a container that holds the first n of the objects.
ImageData(objs, n) ==
  IF n = 0 THEN <<>> ELSE ImageData(objs, n - 1) \o objs[n].payload

\* newImageSource: the container at the path is loaded (its descriptors and
\* its open file), nothing is cached.
newImageSource(objs) ==
  [fi |-> [i \in 1..Len(objs) |->
             [MimeType |-> objs[i].MimeType,
              Fileoff |-> Header.data_area_off + Len(ImageData(objs, i - 1)),
              Filelen |-> Len(objs[i].payload)]],
   file |-> ImageData(objs, Len(objs)), closed |-> FALSE,
   cachedManifest |-> NilBytes, cachedManifestType |-> ""]

\* descriptorsByMIMEType returns all descriptors of type mimeType.
descriptorsByMIMEType(s, mimeType) ==
  SelectSeq(s.fi, LAMBDA d : d.MimeType = mimeType)

\* GetData of descriptor d through the handle of the source: a read of the
\* open file; once the file is closed every read of it fails, and only an
\* object of no bytes, for which nothing is read, is still returned.
sourceGetData(s, h, d) ==
  IF s.closed /\ d.Filelen > 0 THEN [b |-> <<>>, err |-> "ErrClosed"]
  ELSE GetData(d, h, s.file)

\* The data of descriptor d is read, cached with its type and returned; a
\* read error is returned and nothing is cached.
cacheManifest(s, h, d, mt) ==
  LET r == sourceGetData(s, h, d)
  IN  IF r.err # "nil"
      THEN [s |-> s, b |-> NilBytes, type |-> "", err |-> r.err]
      ELSE [s |-> [s EXCEPT !.cachedManifest = Bytes(r.b),
                            !.cachedManifestType = mt],
            b |-> Bytes(r.b), type |-> mt, err |-> "nil"]

\* indexOrPrimaryManifest resolving the manifest anew on every call.
indexOrPrimaryManifest_NoCache(s, h) ==
  LET ix == descriptorsByMIMEType(s, MediaTypeImageIndex)
      ms == descriptorsByMIMEType(s, MediaTypeImageManifest)
  IN  IF Len(ix) = 1 THEN cacheManifest(s, h, ix[1], MediaTypeImageIndex)
      ELSE IF Len(ix) > 1
      THEN [s |-> s, b |-> NilBytes, type |-> "", err |-> "errMultIndex"]
      ELSE IF Len(ms) = 1
      THEN cacheManifest(s, h, ms[1], MediaTypeImageManifest)
      ELSE [s |-> s, b |-> NilBytes, type |-> "",
            err |-> "errNoPrimaryManifest"]

\* indexOrPrimaryManifest: the cached manifest if there is one, else the
\* image index, else the single image manifest.
indexOrPrimaryManifest(s, h) ==
  LET ix == descriptorsByMIMEType(s, MediaTypeImageIndex)
      ms == descriptorsByMIMEType(s, MediaTypeImageManifest)
  IN  IF ~s.cachedManifest.nil
      THEN [s |-> s, b |-> s.cachedManifest, type |-> s.cachedManifestType,
            err |-> "nil"]
      ELSE IF Len(ix) = 1
      THEN cacheManifest(s, h, ix[1], MediaTypeImageIndex)
      ELSE IF Len(ix) > 1
      THEN [s |-> s, b |-> NilBytes, type |-> "", err |-> "errMultIndex"]
      ELSE IF Len(ms) = 1
      THEN cacheManifest(s, h, ms[1], MediaTypeImageManifest)
      ELSE [s |-> s, b |-> NilBytes, type |-> "",
            err |-> "errNoPrimaryManifest"]

RECURSIVE getDescriptor(_, _, _, _, _)
\* GetDescriptor(withDigest(want)) from descriptor i on, found being the
\* matches so far: each descriptor is tested in table order by the digest
\* of the bytes its reader delivers (those the file holds of it; a read of
\* the closed file is an error, and nothing is read for no bytes); an error
\* of the test and a second match end the search.
getDescriptor(s, h, want, i, found) ==
  IF i > Len(s.fi)
  THEN IF found = <<>> THEN [d |-> <<>>, err |-> "ErrObjectNotFound"]
       ELSE [d |-> found[1], err |-> "nil"]
  ELSE LET d == s.fi[i]
       IN  IF s.closed /\ d.Filelen > 0
           THEN [d |-> <<>>, err |-> "ErrClosed"]
           ELSE IF Digest(ReadAt(h, s.file, d.Fileoff, d.Filelen).b) # want
           THEN getDescriptor(s, h, want, i + 1, found)
           ELSE IF found # <<>>
           THEN [d |-> <<>>, err |-> "ErrMultipleObjectsFound"]
           ELSE getDescriptor(s, h, want, i + 1, <<d>>)

\* descriptorByDigest: the one descriptor whose data has the digest.
descriptorByDigest(s, h, want) == getDescriptor(s, h, want, 1, <<>>)

\* GetManifest: the primary manifest when no digest is given, else the
\* object with that digest and its MIME type.
GetManifest(s, h, instanceDigest) ==
  IF instanceDigest = NoDigest THEN indexOrPrimaryManifest(s, h)
  ELSE LET r == descriptorByDigest(s, h, instanceDigest)
       IN  IF r.err # "nil"
           THEN [s |-> s, b |-> NilBytes, type |-> "", err |-> r.err]
           ELSE LET g == sourceGetData(s, h, r.d)
                IN  IF g.err # "nil"
                    THEN [s |-> s, b |-> NilBytes, type |-> "",
                          err |-> g.err]
                    ELSE [s |-> s, b |-> Bytes(g.b),
                          type |-> r.d.MimeType, err |-> "nil"]

\* integ in this phase: s the source; path what is at the path of the
\* reference (the file the source has open, nothing, or the file of the
\* destination); d the destination (none, open or closed; same when its
\* file is the file the source has open, else file holds its data area);
\* call the last call, with its error err and what it returned: r and the
\* digest asked for when it was GetManifest, blob when it was PutBlob.
NewImageSourceStep(objs) ==
  /\ integ.phase = "idle"
  /\ integ' = [phase |-> "source", s |-> newImageSource(objs),
               path |-> "source",
               d |-> [state |-> "none", same |-> FALSE, file |-> <<>>],
               call |-> "none", err |-> "nil",
               instanceDigest |-> NoDigest,
               r |-> [b |-> NilBytes, type |-> "", err |-> "nil"],
               blob |-> [Digest |-> NoDigest, Size |-> 0]]
  /\ UNCHANGED <<Header, DescrArr, Data, now, steps, last, issued, loaded,
                 added, readers>>

GetManifestStep(instanceDigest) ==
  /\ integ.phase = "source"
  /\ LET r == GetManifest(integ.s, Header, instanceDigest)
     IN  integ' = [integ EXCEPT !.s = r.s, !.call = "GetManifest",
                                !.err = r.err,
                                !.instanceDigest = instanceDigest,
                                !.r = [b |-> r.b, type |-> r.type,
                                       err |-> r.err],
                                !.blob = [Digest |-> NoDigest, Size |-> 0]]
  /\ UNCHANGED <<Header, DescrArr, Data, now, steps, last, issued, loaded,
                 added, readers>>

\* Close of the source unloads its container: the file is closed; a second
\* Close fails.
SourceCloseStep ==
  /\ integ.phase = "source"
  /\ integ' = [integ EXCEPT
                 !.s.closed = TRUE, !.instanceDigest = NoDigest,
                 !.r = [b |-> NilBytes, type |-> "", err |-> "nil"],
                 !.blob = [Digest |-> NoDigest, Size |-> 0],
                 !.call = "sifImageSource.Close",
                 !.err = IF integ.s.closed THEN "AlreadyUnloaded" ELSE "nil"]
  /\ UNCHANGED <<Header, DescrArr, Data, now, steps, last, issued, loaded,
                 added, readers>>

\* DeleteImage removes the file at the path; a handle that has the file
\* open keeps reading and writing it.
DeleteImageStep ==
  /\ integ.phase = "source"
  /\ integ' = [integ EXCEPT
                 !.path = "none", !.instanceDigest = NoDigest,
                 !.r = [b |-> NilBytes, type |-> "", err |-> "nil"],
                 !.blob = [Digest |-> NoDigest, Size |-> 0],
                 !.call = "DeleteImage",
                 !.err = IF integ.path = "none" THEN "ErrNotExist" ELSE "nil"]
  /\ UNCHANGED <<Header, DescrArr, Data, now, steps, last, issued, loaded,
                 added, readers>>

\* newImageDestination on the reference of the source: the file at the path
\* is created anew, with an empty data area; it is the file the source has
\* open while that is at the path, else a new file.
NewImageDestinationStep ==
  /\ integ.phase = "source"
  /\ integ.d.state = "none"
  /\ integ' = [integ EXCEPT
                 !.s.file = IF integ.path = "source" THEN <<>> ELSE @,
                 !.d = [state |-> "open", same |-> integ.path = "source",
                        file |-> <<>>],
                 !.path = IF integ.path = "source" THEN "source"
                          ELSE "destination",
                 !.instanceDigest = NoDigest,
                 !.r = [b |-> NilBytes, type |-> "", err |-> "nil"],
                 !.blob = [Digest |-> NoDigest, Size |-> 0],
                 !.call = "newImageDestination", !.err = "nil"]
  /\ UNCHANGED <<Header, DescrArr, Data, now, steps, last, issued, loaded,
                 added, readers>>

\* Close of the destination unloads its container; a second Close fails.
DestinationCloseStep ==
  /\ integ.phase = "source"
  /\ integ.d.state # "none"
  /\ integ' = [integ EXCEPT
                 !.d.state = "closed", !.instanceDigest = NoDigest,
                 !.r = [b |-> NilBytes, type |-> "", err |-> "nil"],
                 !.blob = [Digest |-> NoDigest, Size |-> 0],
                 !.call = "sifImageDestination.Close",
                 !.err = IF integ.d.state = "closed" THEN "AlreadyUnloaded"
                         ELSE "nil"]
  /\ UNCHANGED <<Header, DescrArr, Data, now, steps, last, issued, loaded,
                 added, readers>>

\* PutManifest on the destination: the manifest is added at the end of the
\* data area of the file of the destination; it fails once the destination
\* is closed.
PutManifestStep(b) ==
  /\ integ.phase = "source"
  /\ integ.d.state # "none"
  /\ IF integ.d.state = "closed"
     THEN integ' = [integ EXCEPT
                      !.instanceDigest = NoDigest,
                      !.r = [b |-> NilBytes, type |-> "", err |-> "nil"],
                      !.blob = [Digest |-> NoDigest, Size |-> 0],
                      !.call = "PutManifest", !.err = "AlreadyUnloaded"]
     ELSE /\ Len(IF integ.d.same THEN integ.s.file ELSE integ.d.file)
               < MaxImageObjects
          /\ integ' = [integ EXCEPT
                         !.s.file = IF integ.d.same
                                    THEN WriteAt(@, Len(@), b) ELSE @,
                         !.d.file = IF integ.d.same
                                    THEN @ ELSE WriteAt(@, Len(@), b),
                         !.instanceDigest = NoDigest,
                         !.r = [b |-> NilBytes, type |-> "", err |-> "nil"],
                         !.blob = [Digest |-> NoDigest, Size |-> 0],
                         !.call = "PutManifest", !.err = "nil"]
  /\ UNCHANGED <<Header, DescrArr, Data, now, steps, last, issued, loaded,
                 added, readers>>

\* PutBlob on the destination: the bytes of the stream are added at the end
\* of the data area of the file of the destination, and their digest and
\* size are returned; it fails once the destination is closed.
PutBlobStep(b) ==
  /\ integ.phase = "source"
  /\ integ.d.state # "none"
  /\ IF integ.d.state = "closed"
     THEN integ' = [integ EXCEPT
                      !.instanceDigest = NoDigest,
                      !.r = [b |-> NilBytes, type |-> "", err |-> "nil"],
                      !.call = "PutBlob", !.err = "AlreadyUnloaded",
                      !.blob = [Digest |-> NoDigest, Size |-> 0]]
     ELSE /\ Len(IF integ.d.same THEN integ.s.file ELSE integ.d.file)
               < MaxImageObjects
          /\ integ' = [integ EXCEPT
                         !.s.file = IF integ.d.same
                                    THEN WriteAt(@, Len(@), b) ELSE @,
                         !.d.file = IF integ.d.same
                                    THEN @ ELSE WriteAt(@, Len(@), b),
                         !.instanceDigest = NoDigest,
                         !.r = [b |-> NilBytes, type |-> "", err |-> "nil"],
                         !.call = "PutBlob", !.err = "nil",
                         !.blob = [Digest |-> Digest(b), Size |-> Len(b)]]
  /\ UNCHANGED <<Header, DescrArr, Data, now, steps, last, issued, loaded,
                 added, readers>>

NextImage ==
  \/ \E objs \in SeqUpTo(ImageObjects, MaxImageObjects) :
       NewImageSourceStep(objs)
  \/ \E dg \in {NoDigest, Digest(<<105>>), Digest(<<109>>)} :
       GetManifestStep(dg)
  \/ SourceCloseStep
  \/ DeleteImageStep
  \/ NewImageDestinationStep
  \/ DestinationCloseStep
  \/ PutManifestStep(<<120>>)
  \/ PutBlobStep(<<120>>)

SpecImage == Init /\ [][NextImage]_vars

(***************************************************************************)
(* The primary manifest of the image source (C30).                         *)
(***************************************************************************)
\* The step is a call of GetManifest for the primary manifest.
PrimaryManifestCall ==
  /\ integ.phase = "source"
  /\ integ'.call = "GetManifest"
  /\ integ'.instanceDigest = NoDigest

\* The objects of the source that have the given media type.
ObjectsOfType(s, mt) == {i \in 1..Len(s.fi) : s.fi[i].MimeType = mt}

\* The call returned the object i of the source with the type mt, or the
\* error of reading it.
ReturnsObject(i, mt) ==
  LET g == sourceGetData(integ.s, Header, integ.s.fi[i])
  IN  IF g.err = "nil"
      THEN integ'.r = [b |-> Bytes(g.b), type |-> mt, err |-> "nil"]
      ELSE integ'.r.err = g.err

\* C30: the image source resolves the primary manifest in a fixed order:
\* the object with the image-index media type when there is exactly one,
\* the multiple-indexes error when there are more, else the object with the
\* image-manifest media type when there is exactly one, else the
\* no-primary-manifest error.  A manifest that was returned is cached, and
\* every later call returns the cached bytes and type; after an error
\* nothing is cached.
C30_PrimaryManifest ==
  [][PrimaryManifestCall =>
       LET ix == ObjectsOfType(integ.s, MediaTypeImageIndex)
           ms == ObjectsOfType(integ.s, MediaTypeImageManifest)
       IN  IF integ.s.cachedManifest.nil
           THEN /\ Cardinality(ix) = 1 =>
                     ReturnsObject(CHOOSE i \in ix : TRUE,
                                   MediaTypeImageIndex)
                /\ Cardinality(ix) > 1 => integ'.r.err = "errMultIndex"
                /\ (ix = {} /\ Cardinality(ms) = 1) =>
                     ReturnsObject(CHOOSE i \in ms : TRUE,
                                   MediaTypeImageManifest)
                /\ (ix = {} /\ Cardinality(ms) # 1) =>
                     integ'.r.err = "errNoPrimaryManifest"
                /\ integ'.r.err = "nil" =>
                     /\ ~integ'.r.b.nil
                     /\ integ'.s.cachedManifest = integ'.r.b
                     /\ integ'.s.cachedManifestType = integ'.r.type
                /\ integ'.r.err # "nil" =>
                     /\ integ'.r.b.nil
                     /\ integ'.s.cachedManifest.nil
           ELSE /\ integ'.r = [b |-> integ.s.cachedManifest,
                               type |-> integ.s.cachedManifestType,
                               err |-> "nil"]
                /\ integ'.s = integ.s]_vars

\* A source opened on a manifest followed by an index returned the index,
\* the file was created anew, and a later call still returned the bytes and
\* the type of the index.
C30_Witness ==
  /\ integ.phase = "source"
  /\ integ.call = "GetManifest"
  /\ integ.instanceDigest = NoDigest
  /\ Len(integ.s.fi) = 2
  /\ integ.s.fi[1].MimeType = MediaTypeImageManifest
  /\ integ.s.fi[2].MimeType = MediaTypeImageIndex
  /\ integ.d.state = "open"
  /\ integ.d.same
  /\ integ.s.file = <<>>
  /\ integ.r = [b |-> Bytes(<<105>>), type |-> MediaTypeImageIndex,
                err |-> "nil"]

====
